---- MODULE Spec2Model ----
(***************************************************************************)
(* Model of messages_cli/telegram_db.py: the byte reader, the              *)
(* PostboxEncoder decoder, the message and peer parsers, and the           *)
(* TelegramDB facade (lazy open, close, peer cache, queries).              *)
(*                                                                         *)
(* Conventions.  A byte buffer is a sequence over 0..255; a cursor is the  *)
(* 0-based offset io.BytesIO.tell() returns.  A Python str is the sequence *)
(* of its code points.  A decoded Python value is a record [t, v] whose t  *)
(* names the Python type.  Integers wider than the checker's 32-bit range  *)
(* are kept exactly as Wide(bytes); the inputs drawn below stay in range.  *)
(***************************************************************************)
EXTENDS Integers, Sequences, FiniteSets, TLC

VARIABLES
    available,       \* TelegramDB.available: both source files were found
    conn,            \* TelegramDB._conn is not None
    plaintext_path,  \* TelegramDB._plaintext_path (NoPath = None)
    peer_cache,      \* TelegramDB._peer_cache: peer id -> peer dict
    disk,            \* temporary plaintext files that exist on disk
    exported,        \* files created by open attempts of this instance
    filled,          \* files on disk that hold data (size > 0)
    runs,            \* times the pipeline ran: _decrypt_key, then _decrypt_database
    opens,           \* times the pipeline ended with the store opened
    env,             \* outcomes the key file / export tool / sqlite can produce
    t2,              \* peer table: set of rows [key, value]
    t7,              \* message table: set of rows [key, value]
    call,            \* the last operation and its arguments
    ret,             \* what the last operation returned or raised
    input,           \* the buffers a parser specification applies its functions to
    met,             \* the outcome the pipeline met in the last operation ("" if it ran none)
    pc,              \* where the process that owns the instance is in its routine
    hooks,           \* the callbacks registered with atexit, in order
    inst             \* the instances that open the store side by side

vars == <<available, conn, plaintext_path, peer_cache, disk, exported, filled, runs, opens,
          env, t2, t7, call, ret, input, met, pc, hooks, inst>>

-----------------------------------------------------------------------------
(* Sequence helpers *)

Min(a, b) == IF a < b THEN a ELSE b

Max(a, b) == IF a > b THEN a ELSE b

Zeros(n) == [i \in 1..n |-> 0]

RECURSIVE Concat(_)
Concat(ss) == IF ss = <<>> THEN <<>> ELSE Head(ss) \o Concat(Tail(ss))

\* Python: needle in hay (substring test on str)
Contains(hay, needle) ==
    \E i \in 0..(Len(hay) - Len(needle)) :
        SubSeq(hay, i + 1, i + Len(needle)) = needle

\* c lies in one of the ranges <<first, last>> of rs
InRanges(c, rs) == \E r \in rs : c >= r[1] /\ c <= r[2]

\* the simple lowercase mappings of the Unicode database of the interpreter
\* (14.0.0): <<first, last, step, delta>> maps first, first + step, .. last to
\* the code point delta further on
LowerRuns ==
    {<<65, 90, 1, 32>>, <<192, 214, 1, 32>>, <<216, 222, 1, 32>>, <<256, 302, 2, 1>>,
     <<306, 310, 2, 1>>, <<313, 327, 2, 1>>, <<330, 374, 2, 1>>, <<376, 376, 1, -121>>,
     <<377, 381, 2, 1>>, <<385, 385, 1, 210>>, <<386, 388, 2, 1>>, <<390, 390, 1, 206>>,
     <<391, 391, 1, 1>>, <<393, 394, 1, 205>>, <<395, 395, 1, 1>>, <<398, 398, 1, 79>>,
     <<399, 399, 1, 202>>, <<400, 400, 1, 203>>, <<401, 401, 1, 1>>, <<403, 403, 1,
     205>>, <<404, 404, 1, 207>>, <<406, 406, 1, 211>>, <<407, 407, 1, 209>>, <<408,
     408, 1, 1>>, <<412, 412, 1, 211>>, <<413, 413, 1, 213>>, <<415, 415, 1, 214>>,
     <<416, 420, 2, 1>>, <<422, 422, 1, 218>>, <<423, 423, 1, 1>>, <<425, 425, 1, 218>>,
     <<428, 428, 1, 1>>, <<430, 430, 1, 218>>, <<431, 431, 1, 1>>, <<433, 434, 1, 217>>,
     <<435, 437, 2, 1>>, <<439, 439, 1, 219>>, <<440, 440, 1, 1>>, <<444, 444, 1, 1>>,
     <<452, 452, 1, 2>>, <<453, 453, 1, 1>>, <<455, 455, 1, 2>>, <<456, 456, 1, 1>>,
     <<458, 458, 1, 2>>, <<459, 475, 2, 1>>, <<478, 494, 2, 1>>, <<497, 497, 1, 2>>,
     <<498, 500, 2, 1>>, <<502, 502, 1, -97>>, <<503, 503, 1, -56>>, <<504, 542, 2, 1>>,
     <<544, 544, 1, -130>>, <<546, 562, 2, 1>>, <<570, 570, 1, 10795>>, <<571, 571, 1,
     1>>, <<573, 573, 1, -163>>, <<574, 574, 1, 10792>>, <<577, 577, 1, 1>>, <<579, 579,
     1, -195>>, <<580, 580, 1, 69>>, <<581, 581, 1, 71>>, <<582, 590, 2, 1>>, <<880,
     882, 2, 1>>, <<886, 886, 1, 1>>, <<895, 895, 1, 116>>, <<902, 902, 1, 38>>, <<904,
     906, 1, 37>>, <<908, 908, 1, 64>>, <<910, 911, 1, 63>>, <<913, 929, 1, 32>>, <<931,
     939, 1, 32>>, <<975, 975, 1, 8>>, <<984, 1006, 2, 1>>, <<1012, 1012, 1, -60>>,
     <<1015, 1015, 1, 1>>, <<1017, 1017, 1, -7>>, <<1018, 1018, 1, 1>>, <<1021, 1023, 1,
     -130>>, <<1024, 1039, 1, 80>>, <<1040, 1071, 1, 32>>, <<1120, 1152, 2, 1>>, <<1162,
     1214, 2, 1>>, <<1216, 1216, 1, 15>>, <<1217, 1229, 2, 1>>, <<1232, 1326, 2, 1>>,
     <<1329, 1366, 1, 48>>, <<4256, 4293, 1, 7264>>, <<4295, 4295, 1, 7264>>, <<4301,
     4301, 1, 7264>>, <<5024, 5103, 1, 38864>>, <<5104, 5109, 1, 8>>, <<7312, 7354, 1,
     -3008>>, <<7357, 7359, 1, -3008>>, <<7680, 7828, 2, 1>>, <<7838, 7838, 1, -7615>>,
     <<7840, 7934, 2, 1>>, <<7944, 7951, 1, -8>>, <<7960, 7965, 1, -8>>, <<7976, 7983,
     1, -8>>, <<7992, 7999, 1, -8>>, <<8008, 8013, 1, -8>>, <<8025, 8031, 2, -8>>,
     <<8040, 8047, 1, -8>>, <<8072, 8079, 1, -8>>, <<8088, 8095, 1, -8>>, <<8104, 8111,
     1, -8>>, <<8120, 8121, 1, -8>>, <<8122, 8123, 1, -74>>, <<8124, 8124, 1, -9>>,
     <<8136, 8139, 1, -86>>, <<8140, 8140, 1, -9>>, <<8152, 8153, 1, -8>>, <<8154, 8155,
     1, -100>>, <<8168, 8169, 1, -8>>, <<8170, 8171, 1, -112>>, <<8172, 8172, 1, -7>>,
     <<8184, 8185, 1, -128>>, <<8186, 8187, 1, -126>>, <<8188, 8188, 1, -9>>, <<8486,
     8486, 1, -7517>>, <<8490, 8490, 1, -8383>>, <<8491, 8491, 1, -8262>>, <<8498, 8498,
     1, 28>>, <<8544, 8559, 1, 16>>, <<8579, 8579, 1, 1>>, <<9398, 9423, 1, 26>>,
     <<11264, 11311, 1, 48>>, <<11360, 11360, 1, 1>>, <<11362, 11362, 1, -10743>>,
     <<11363, 11363, 1, -3814>>, <<11364, 11364, 1, -10727>>, <<11367, 11371, 2, 1>>,
     <<11373, 11373, 1, -10780>>, <<11374, 11374, 1, -10749>>, <<11375, 11375, 1,
     -10783>>, <<11376, 11376, 1, -10782>>, <<11378, 11378, 1, 1>>, <<11381, 11381, 1,
     1>>, <<11390, 11391, 1, -10815>>, <<11392, 11490, 2, 1>>, <<11499, 11501, 2, 1>>,
     <<11506, 11506, 1, 1>>, <<42560, 42604, 2, 1>>, <<42624, 42650, 2, 1>>, <<42786,
     42798, 2, 1>>, <<42802, 42862, 2, 1>>, <<42873, 42875, 2, 1>>, <<42877, 42877, 1,
     -35332>>, <<42878, 42886, 2, 1>>, <<42891, 42891, 1, 1>>, <<42893, 42893, 1,
     -42280>>, <<42896, 42898, 2, 1>>, <<42902, 42920, 2, 1>>, <<42922, 42922, 1,
     -42308>>, <<42923, 42923, 1, -42319>>, <<42924, 42924, 1, -42315>>, <<42925, 42925,
     1, -42305>>, <<42926, 42926, 1, -42308>>, <<42928, 42928, 1, -42258>>, <<42929,
     42929, 1, -42282>>, <<42930, 42930, 1, -42261>>, <<42931, 42931, 1, 928>>, <<42932,
     42946, 2, 1>>, <<42948, 42948, 1, -48>>, <<42949, 42949, 1, -42307>>, <<42950,
     42950, 1, -35384>>, <<42951, 42953, 2, 1>>, <<42960, 42960, 1, 1>>, <<42966, 42968,
     2, 1>>, <<42997, 42997, 1, 1>>, <<65313, 65338, 1, 32>>, <<66560, 66599, 1, 40>>,
     <<66736, 66771, 1, 40>>, <<66928, 66938, 1, 39>>, <<66940, 66954, 1, 39>>, <<66956,
     66962, 1, 39>>, <<66964, 66965, 1, 39>>, <<68736, 68786, 1, 64>>, <<71840, 71871,
     1, 32>>, <<93760, 93791, 1, 32>>, <<125184, 125217, 1, 34>>}

\* the lowercase of one code point that maps to one code point
LowerOf(c) ==
    IF c < 128 THEN (IF c >= 65 /\ c <= 90 THEN c + 32 ELSE c)
    ELSE IF \E r \in LowerRuns : c >= r[1] /\ c <= r[2] /\ (c - r[1]) % r[3] = 0
    THEN c + (CHOOSE r \in LowerRuns : c >= r[1] /\ c <= r[2] /\ (c - r[1]) % r[3] = 0)[4]
    ELSE c

\* str.lower() of a str of one code point: U+0130 lowers to two code points
LowerChar(c) == IF c = 304 THEN <<105, 775>> ELSE <<LowerOf(c)>>

\* the code points that are cased and not case-ignorable
CasedRanges ==
    {<<65, 90>>, <<97, 122>>, <<170, 170>>, <<181, 181>>, <<186, 186>>, <<192, 214>>,
     <<216, 246>>, <<248, 442>>, <<444, 447>>, <<452, 659>>, <<661, 687>>, <<880, 883>>,
     <<886, 887>>, <<891, 893>>, <<895, 895>>, <<902, 902>>, <<904, 906>>, <<908, 908>>,
     <<910, 929>>, <<931, 1013>>, <<1015, 1153>>, <<1162, 1327>>, <<1329, 1366>>,
     <<1376, 1416>>, <<4256, 4293>>, <<4295, 4295>>, <<4301, 4301>>, <<4304, 4346>>,
     <<4349, 4351>>, <<5024, 5109>>, <<5112, 5117>>, <<7296, 7304>>, <<7312, 7354>>,
     <<7357, 7359>>, <<7424, 7467>>, <<7531, 7543>>, <<7545, 7578>>, <<7680, 7957>>,
     <<7960, 7965>>, <<7968, 8005>>, <<8008, 8013>>, <<8016, 8023>>, <<8025, 8025>>,
     <<8027, 8027>>, <<8029, 8029>>, <<8031, 8061>>, <<8064, 8116>>, <<8118, 8124>>,
     <<8126, 8126>>, <<8130, 8132>>, <<8134, 8140>>, <<8144, 8147>>, <<8150, 8155>>,
     <<8160, 8172>>, <<8178, 8180>>, <<8182, 8188>>, <<8450, 8450>>, <<8455, 8455>>,
     <<8458, 8467>>, <<8469, 8469>>, <<8473, 8477>>, <<8484, 8484>>, <<8486, 8486>>,
     <<8488, 8488>>, <<8490, 8493>>, <<8495, 8500>>, <<8505, 8505>>, <<8508, 8511>>,
     <<8517, 8521>>, <<8526, 8526>>, <<8544, 8575>>, <<8579, 8580>>, <<9398, 9449>>,
     <<11264, 11387>>, <<11390, 11492>>, <<11499, 11502>>, <<11506, 11507>>, <<11520,
     11557>>, <<11559, 11559>>, <<11565, 11565>>, <<42560, 42605>>, <<42624, 42651>>,
     <<42786, 42863>>, <<42865, 42887>>, <<42891, 42894>>, <<42896, 42954>>, <<42960,
     42961>>, <<42963, 42963>>, <<42965, 42969>>, <<42997, 42998>>, <<43002, 43002>>,
     <<43824, 43866>>, <<43872, 43880>>, <<43888, 43967>>, <<64256, 64262>>, <<64275,
     64279>>, <<65313, 65338>>, <<65345, 65370>>, <<66560, 66639>>, <<66736, 66771>>,
     <<66776, 66811>>, <<66928, 66938>>, <<66940, 66954>>, <<66956, 66962>>, <<66964,
     66965>>, <<66967, 66977>>, <<66979, 66993>>, <<66995, 67001>>, <<67003, 67004>>,
     <<68736, 68786>>, <<68800, 68850>>, <<71840, 71903>>, <<93760, 93823>>, <<119808,
     119892>>, <<119894, 119964>>, <<119966, 119967>>, <<119970, 119970>>, <<119973,
     119974>>, <<119977, 119980>>, <<119982, 119993>>, <<119995, 119995>>, <<119997,
     120003>>, <<120005, 120069>>, <<120071, 120074>>, <<120077, 120084>>, <<120086,
     120092>>, <<120094, 120121>>, <<120123, 120126>>, <<120128, 120132>>, <<120134,
     120134>>, <<120138, 120144>>, <<120146, 120485>>, <<120488, 120512>>, <<120514,
     120538>>, <<120540, 120570>>, <<120572, 120596>>, <<120598, 120628>>, <<120630,
     120654>>, <<120656, 120686>>, <<120688, 120712>>, <<120714, 120744>>, <<120746,
     120770>>, <<120772, 120779>>, <<122624, 122633>>, <<122635, 122654>>, <<125184,
     125251>>, <<127280, 127305>>, <<127312, 127337>>, <<127344, 127369>>}

\* the case-ignorable code points
CaseIgnorableRanges ==
    {<<39, 39>>, <<46, 46>>, <<58, 58>>, <<94, 94>>, <<96, 96>>, <<168, 168>>, <<173,
     173>>, <<175, 175>>, <<180, 180>>, <<183, 184>>, <<688, 879>>, <<884, 885>>, <<890,
     890>>, <<900, 901>>, <<903, 903>>, <<1155, 1161>>, <<1369, 1369>>, <<1375, 1375>>,
     <<1425, 1469>>, <<1471, 1471>>, <<1473, 1474>>, <<1476, 1477>>, <<1479, 1479>>,
     <<1524, 1524>>, <<1536, 1541>>, <<1552, 1562>>, <<1564, 1564>>, <<1600, 1600>>,
     <<1611, 1631>>, <<1648, 1648>>, <<1750, 1757>>, <<1759, 1768>>, <<1770, 1773>>,
     <<1807, 1807>>, <<1809, 1809>>, <<1840, 1866>>, <<1958, 1968>>, <<2027, 2037>>,
     <<2042, 2042>>, <<2045, 2045>>, <<2070, 2093>>, <<2137, 2139>>, <<2184, 2184>>,
     <<2192, 2193>>, <<2200, 2207>>, <<2249, 2306>>, <<2362, 2362>>, <<2364, 2364>>,
     <<2369, 2376>>, <<2381, 2381>>, <<2385, 2391>>, <<2402, 2403>>, <<2417, 2417>>,
     <<2433, 2433>>, <<2492, 2492>>, <<2497, 2500>>, <<2509, 2509>>, <<2530, 2531>>,
     <<2558, 2558>>, <<2561, 2562>>, <<2620, 2620>>, <<2625, 2626>>, <<2631, 2632>>,
     <<2635, 2637>>, <<2641, 2641>>, <<2672, 2673>>, <<2677, 2677>>, <<2689, 2690>>,
     <<2748, 2748>>, <<2753, 2757>>, <<2759, 2760>>, <<2765, 2765>>, <<2786, 2787>>,
     <<2810, 2815>>, <<2817, 2817>>, <<2876, 2876>>, <<2879, 2879>>, <<2881, 2884>>,
     <<2893, 2893>>, <<2901, 2902>>, <<2914, 2915>>, <<2946, 2946>>, <<3008, 3008>>,
     <<3021, 3021>>, <<3072, 3072>>, <<3076, 3076>>, <<3132, 3132>>, <<3134, 3136>>,
     <<3142, 3144>>, <<3146, 3149>>, <<3157, 3158>>, <<3170, 3171>>, <<3201, 3201>>,
     <<3260, 3260>>, <<3263, 3263>>, <<3270, 3270>>, <<3276, 3277>>, <<3298, 3299>>,
     <<3328, 3329>>, <<3387, 3388>>, <<3393, 3396>>, <<3405, 3405>>, <<3426, 3427>>,
     <<3457, 3457>>, <<3530, 3530>>, <<3538, 3540>>, <<3542, 3542>>, <<3633, 3633>>,
     <<3636, 3642>>, <<3654, 3662>>, <<3761, 3761>>, <<3764, 3772>>, <<3782, 3782>>,
     <<3784, 3789>>, <<3864, 3865>>, <<3893, 3893>>, <<3895, 3895>>, <<3897, 3897>>,
     <<3953, 3966>>, <<3968, 3972>>, <<3974, 3975>>, <<3981, 3991>>, <<3993, 4028>>,
     <<4038, 4038>>, <<4141, 4144>>, <<4146, 4151>>, <<4153, 4154>>, <<4157, 4158>>,
     <<4184, 4185>>, <<4190, 4192>>, <<4209, 4212>>, <<4226, 4226>>, <<4229, 4230>>,
     <<4237, 4237>>, <<4253, 4253>>, <<4348, 4348>>, <<4957, 4959>>, <<5906, 5908>>,
     <<5938, 5939>>, <<5970, 5971>>, <<6002, 6003>>, <<6068, 6069>>, <<6071, 6077>>,
     <<6086, 6086>>, <<6089, 6099>>, <<6103, 6103>>, <<6109, 6109>>, <<6155, 6159>>,
     <<6211, 6211>>, <<6277, 6278>>, <<6313, 6313>>, <<6432, 6434>>, <<6439, 6440>>,
     <<6450, 6450>>, <<6457, 6459>>, <<6679, 6680>>, <<6683, 6683>>, <<6742, 6742>>,
     <<6744, 6750>>, <<6752, 6752>>, <<6754, 6754>>, <<6757, 6764>>, <<6771, 6780>>,
     <<6783, 6783>>, <<6823, 6823>>, <<6832, 6862>>, <<6912, 6915>>, <<6964, 6964>>,
     <<6966, 6970>>, <<6972, 6972>>, <<6978, 6978>>, <<7019, 7027>>, <<7040, 7041>>,
     <<7074, 7077>>, <<7080, 7081>>, <<7083, 7085>>, <<7142, 7142>>, <<7144, 7145>>,
     <<7149, 7149>>, <<7151, 7153>>, <<7212, 7219>>, <<7222, 7223>>, <<7288, 7293>>,
     <<7376, 7378>>, <<7380, 7392>>, <<7394, 7400>>, <<7405, 7405>>, <<7412, 7412>>,
     <<7416, 7417>>, <<7468, 7530>>, <<7544, 7544>>, <<7579, 7679>>, <<8125, 8125>>,
     <<8127, 8129>>, <<8141, 8143>>, <<8157, 8159>>, <<8173, 8175>>, <<8189, 8190>>,
     <<8203, 8207>>, <<8216, 8217>>, <<8228, 8228>>, <<8231, 8231>>, <<8234, 8238>>,
     <<8288, 8292>>, <<8294, 8303>>, <<8305, 8305>>, <<8319, 8319>>, <<8336, 8348>>,
     <<8400, 8432>>, <<11388, 11389>>, <<11503, 11505>>, <<11631, 11631>>, <<11647,
     11647>>, <<11744, 11775>>, <<11823, 11823>>, <<12293, 12293>>, <<12330, 12333>>,
     <<12337, 12341>>, <<12347, 12347>>, <<12441, 12446>>, <<12540, 12542>>, <<40981,
     40981>>, <<42232, 42237>>, <<42508, 42508>>, <<42607, 42610>>, <<42612, 42621>>,
     <<42623, 42623>>, <<42652, 42655>>, <<42736, 42737>>, <<42752, 42785>>, <<42864,
     42864>>, <<42888, 42890>>, <<42994, 42996>>, <<43000, 43001>>, <<43010, 43010>>,
     <<43014, 43014>>, <<43019, 43019>>, <<43045, 43046>>, <<43052, 43052>>, <<43204,
     43205>>, <<43232, 43249>>, <<43263, 43263>>, <<43302, 43309>>, <<43335, 43345>>,
     <<43392, 43394>>, <<43443, 43443>>, <<43446, 43449>>, <<43452, 43453>>, <<43471,
     43471>>, <<43493, 43494>>, <<43561, 43566>>, <<43569, 43570>>, <<43573, 43574>>,
     <<43587, 43587>>, <<43596, 43596>>, <<43632, 43632>>, <<43644, 43644>>, <<43696,
     43696>>, <<43698, 43700>>, <<43703, 43704>>, <<43710, 43711>>, <<43713, 43713>>,
     <<43741, 43741>>, <<43756, 43757>>, <<43763, 43764>>, <<43766, 43766>>, <<43867,
     43871>>, <<43881, 43883>>, <<44005, 44005>>, <<44008, 44008>>, <<44013, 44013>>,
     <<64286, 64286>>, <<64434, 64450>>, <<65024, 65039>>, <<65043, 65043>>, <<65056,
     65071>>, <<65106, 65106>>, <<65109, 65109>>, <<65279, 65279>>, <<65287, 65287>>,
     <<65294, 65294>>, <<65306, 65306>>, <<65342, 65342>>, <<65344, 65344>>, <<65392,
     65392>>, <<65438, 65439>>, <<65507, 65507>>, <<65529, 65531>>, <<66045, 66045>>,
     <<66272, 66272>>, <<66422, 66426>>, <<67456, 67461>>, <<67463, 67504>>, <<67506,
     67514>>, <<68097, 68099>>, <<68101, 68102>>, <<68108, 68111>>, <<68152, 68154>>,
     <<68159, 68159>>, <<68325, 68326>>, <<68900, 68903>>, <<69291, 69292>>, <<69446,
     69456>>, <<69506, 69509>>, <<69633, 69633>>, <<69688, 69702>>, <<69744, 69744>>,
     <<69747, 69748>>, <<69759, 69761>>, <<69811, 69814>>, <<69817, 69818>>, <<69821,
     69821>>, <<69826, 69826>>, <<69837, 69837>>, <<69888, 69890>>, <<69927, 69931>>,
     <<69933, 69940>>, <<70003, 70003>>, <<70016, 70017>>, <<70070, 70078>>, <<70089,
     70092>>, <<70095, 70095>>, <<70191, 70193>>, <<70196, 70196>>, <<70198, 70199>>,
     <<70206, 70206>>, <<70367, 70367>>, <<70371, 70378>>, <<70400, 70401>>, <<70459,
     70460>>, <<70464, 70464>>, <<70502, 70508>>, <<70512, 70516>>, <<70712, 70719>>,
     <<70722, 70724>>, <<70726, 70726>>, <<70750, 70750>>, <<70835, 70840>>, <<70842,
     70842>>, <<70847, 70848>>, <<70850, 70851>>, <<71090, 71093>>, <<71100, 71101>>,
     <<71103, 71104>>, <<71132, 71133>>, <<71219, 71226>>, <<71229, 71229>>, <<71231,
     71232>>, <<71339, 71339>>, <<71341, 71341>>, <<71344, 71349>>, <<71351, 71351>>,
     <<71453, 71455>>, <<71458, 71461>>, <<71463, 71467>>, <<71727, 71735>>, <<71737,
     71738>>, <<71995, 71996>>, <<71998, 71998>>, <<72003, 72003>>, <<72148, 72151>>,
     <<72154, 72155>>, <<72160, 72160>>, <<72193, 72202>>, <<72243, 72248>>, <<72251,
     72254>>, <<72263, 72263>>, <<72273, 72278>>, <<72281, 72283>>, <<72330, 72342>>,
     <<72344, 72345>>, <<72752, 72758>>, <<72760, 72765>>, <<72767, 72767>>, <<72850,
     72871>>, <<72874, 72880>>, <<72882, 72883>>, <<72885, 72886>>, <<73009, 73014>>,
     <<73018, 73018>>, <<73020, 73021>>, <<73023, 73029>>, <<73031, 73031>>, <<73104,
     73105>>, <<73109, 73109>>, <<73111, 73111>>, <<73459, 73460>>, <<78896, 78904>>,
     <<92912, 92916>>, <<92976, 92982>>, <<92992, 92995>>, <<94031, 94031>>, <<94095,
     94111>>, <<94176, 94177>>, <<94179, 94180>>, <<110576, 110579>>, <<110581,
     110587>>, <<110589, 110590>>, <<113821, 113822>>, <<113824, 113827>>, <<118528,
     118573>>, <<118576, 118598>>, <<119143, 119145>>, <<119155, 119170>>, <<119173,
     119179>>, <<119210, 119213>>, <<119362, 119364>>, <<121344, 121398>>, <<121403,
     121452>>, <<121461, 121461>>, <<121476, 121476>>, <<121499, 121503>>, <<121505,
     121519>>, <<122880, 122886>>, <<122888, 122904>>, <<122907, 122913>>, <<122915,
     122916>>, <<122918, 122922>>, <<123184, 123197>>, <<123566, 123566>>, <<123628,
     123631>>, <<125136, 125142>>, <<125252, 125259>>, <<127995, 127999>>, <<917505,
     917505>>, <<917536, 917631>>, <<917760, 917999>>}

\* the last position up to j, and the first from j on, that holds a code
\* point that is not case-ignorable (0 and Len(s) + 1 when there is none)
RECURSIVE PrevSolid(_, _)
PrevSolid(s, j) ==
    IF j = 0 THEN 0
    ELSE IF InRanges(s[j], CaseIgnorableRanges) THEN PrevSolid(s, j - 1)
    ELSE j

RECURSIVE NextSolid(_, _)
NextSolid(s, j) ==
    IF j > Len(s) THEN j
    ELSE IF InRanges(s[j], CaseIgnorableRanges) THEN NextSolid(s, j + 1)
    ELSE j

\* a cased letter at position j of s (j a position PrevSolid or NextSolid found)
CasedAt(s, j) == j >= 1 /\ j <= Len(s) /\ InRanges(s[j], CasedRanges)

\* the capital sigma at position i ends a word: a cased letter before it and
\* none after it, case-ignorable code points skipped
FinalSigma(s, i) ==
    CasedAt(s, PrevSolid(s, i - 1)) /\ ~CasedAt(s, NextSolid(s, i + 1))

\* str.lower()
Lower(s) ==
    Concat([i \in 1..Len(s) |->
               IF s[i] = 931 THEN (IF FinalSigma(s, i) THEN <<962>> ELSE <<963>>)
               ELSE LowerChar(s[i])])

\* a continuation byte of UTF-8
Cont(b) == b >= 128 /\ b <= 191

\* the second byte cannot follow the lead byte b1 of a 3- or 4-byte sequence
BadSecond(b1, b2) ==
    \/ ~Cont(b2)
    \/ b1 = 224 /\ b2 < 160
    \/ b1 = 237 /\ b2 >= 160
    \/ b1 = 240 /\ b2 < 144
    \/ b1 = 244 /\ b2 >= 144

\* the number of bytes of the sequence the lead byte b announces (0: no lead byte)
Utf8Width(b) ==
    IF b < 128 THEN 1
    ELSE IF b < 194 THEN 0
    ELSE IF b < 224 THEN 2
    ELSE IF b < 240 THEN 3
    ELSE IF b < 245 THEN 4
    ELSE 0

\* the code point of a well-formed sequence of n bytes at the head of bs
Utf8Point(bs, n) ==
    CASE n = 1 -> bs[1]
      [] n = 2 -> (bs[1] - 192) * 64 + (bs[2] - 128)
      [] n = 3 -> (bs[1] - 224) * 4096 + (bs[2] - 128) * 64 + (bs[3] - 128)
      [] n = 4 -> (bs[1] - 240) * 262144 + (bs[2] - 128) * 4096 + (bs[3] - 128) * 64
                     + (bs[4] - 128)

\* the bytes at the head of bs that decode to one code point or are replaced
\* by one U+FFFD: [n |-> how many, ok |-> a well-formed sequence]
Utf8Head(bs) ==
    IF Utf8Width(bs[1]) = 0 THEN [n |-> 1, ok |-> FALSE]
    ELSE IF Utf8Width(bs[1]) = 1 THEN [n |-> 1, ok |-> TRUE]
    ELSE IF Len(bs) < 2 THEN [n |-> 1, ok |-> FALSE]
    ELSE IF BadSecond(bs[1], bs[2]) THEN [n |-> 1, ok |-> FALSE]
    ELSE IF Utf8Width(bs[1]) = 2 THEN [n |-> 2, ok |-> TRUE]
    ELSE IF Len(bs) < 3 THEN [n |-> 2, ok |-> FALSE]
    ELSE IF ~Cont(bs[3]) THEN [n |-> 2, ok |-> FALSE]
    ELSE IF Utf8Width(bs[1]) = 3 THEN [n |-> 3, ok |-> TRUE]
    ELSE IF Len(bs) < 4 THEN [n |-> 3, ok |-> FALSE]
    ELSE IF ~Cont(bs[4]) THEN [n |-> 3, ok |-> FALSE]
    ELSE [n |-> 4, ok |-> TRUE]

\* bytes.decode("utf-8", errors="replace"): a byte that starts no sequence, and
\* the well-formed start of a sequence cut short or broken off, become one U+FFFD
RECURSIVE DecodeUtf8(_)
DecodeUtf8(bs) ==
    IF bs = <<>> THEN <<>>
    ELSE <<IF Utf8Head(bs).ok THEN Utf8Point(bs, Utf8Head(bs).n) ELSE 65533>>
             \o DecodeUtf8(SubSeq(bs, Utf8Head(bs).n + 1, Len(bs)))

-----------------------------------------------------------------------------
(* struct.unpack / struct.pack *)

Wide(bs) == [wide |-> bs]

\* "<i": little-endian signed 32-bit
S32LE(b) ==
    (IF b[4] >= 128 THEN b[4] - 256 ELSE b[4]) * 16777216
        + b[3] * 65536 + b[2] * 256 + b[1]

\* ">i": big-endian signed 32-bit
S32BE(b) == S32LE(<<b[4], b[3], b[2], b[1]>>)

\* "<I": little-endian unsigned 32-bit
U32LE(b) == IF b[4] < 128 THEN S32LE(b) ELSE Wide(<<b[4], b[3], b[2], b[1]>>)

\* ">q": big-endian signed 64-bit
S64BE(b) ==
    LET hi == SubSeq(b, 1, 4)
        lo == SubSeq(b, 5, 8)
    IN  IF (hi = <<0, 0, 0, 0>> /\ lo[1] < 128)
           \/ (hi = <<255, 255, 255, 255>> /\ lo[1] >= 128)
        THEN S32BE(lo)
        ELSE Wide(b)

\* "<q": little-endian signed 64-bit
S64LE(b) == S64BE([i \in 1..8 |-> b[9 - i]])

\* struct.pack(">i", n)
PackS32BE(n) ==
    LET u == IF n < 0 THEN n + 2147483647 + 1 ELSE n
        top == (u \div 16777216) + (IF n < 0 THEN 128 ELSE 0)
    IN  <<top, (u \div 65536) % 256, (u \div 256) % 256, u % 256>>

\* struct.pack("<i", n)
PackS32LE(n) == LET b == PackS32BE(n) IN <<b[4], b[3], b[2], b[1]>>

\* struct.pack(">q", n)
PackS64BE(n) ==
    (IF n < 0 THEN <<255, 255, 255, 255>> ELSE <<0, 0, 0, 0>>) \o PackS32BE(n)

\* struct.pack("<q", n)
PackS64LE(n) == LET b == PackS64BE(n) IN [i \in 1..8 |-> b[9 - i]]

-----------------------------------------------------------------------------
(* _ValueType *)

Int32 == 0
Int64 == 1
Bool == 2
Double == 3
String == 4
Object == 5
Int32Array == 6
Int64Array == 7
ObjectArray == 8
ObjectDictionary == 9
Bytes == 10
Nil == 11
StringArray == 12
BytesArray == 13

\* _ValueType(n) raises ValueError for a number that names no member
IsValueType(n) == n >= Int32 /\ n <= BytesArray

-----------------------------------------------------------------------------
(* Python values: [t |-> type name, v |-> payload] *)

PyInt(n) == [t |-> "int", v |-> n]
PyBool(b) == [t |-> "bool", v |-> b]
PyFloat(bs) == [t |-> "float", v |-> bs]
PyStr(s) == [t |-> "str", v |-> s]
PyBytes(bs) == [t |-> "bytes", v |-> bs]
PyList(xs) == [t |-> "list", v |-> xs]
PyNone == [t |-> "None", v |-> <<>>]

\* equality of two decoded values of the decoder's types
PyEq(a, b) == a.t = b.t /\ a.v = b.v

-----------------------------------------------------------------------------
(* _ByteReader *)

(***************************************************************************)
(* A reader is the _ByteReader object together with what the statements    *)
(* executed on it so far left behind: the buffer and the cursor of its     *)
(* BytesIO, the byte order, the exception raised ("" when none; "return"   *)
(* for an early return None), the value the last read returned (v) and the *)
(* bytes it was unpacked from (raw), and the local variables of the        *)
(* function that owns the reader (vtype, key, items, fields, kept).  A     *)
(* statement on a reader that already raised is never executed: it leaves  *)
(* the reader as it is.                                                    *)
(***************************************************************************)
Reader(buf, endian) ==
    [buf |-> buf, endian |-> endian, pos |-> 0, err |-> "", v |-> <<>>, raw |-> <<>>,
     vtype |-> Nil, key |-> <<>>, items |-> <<>>, fields |-> <<>>, kept |-> <<>>]

Failed(rd) == rd.err # ""

\* where io.BytesIO.read(n) stops: a negative n reads to the end
ReadEnd(rd, n) ==
    IF n < 0 \/ n >= Len(rd.buf) - rd.pos THEN Len(rd.buf) ELSE rd.pos + n

\* io.BytesIO.read(n): up to n bytes from the cursor
BufRead(rd, n) ==
    IF Failed(rd) THEN rd
    ELSE [rd EXCEPT !.v = SubSeq(rd.buf, rd.pos + 1, ReadEnd(rd, n)),
                    !.pos = ReadEnd(rd, n)]

\* io.BytesIO.read(count * width), computed without leaving the integer range
BufReadScaled(rd, count, width) ==
    IF count < 0 \/ count >= Len(rd.buf) - rd.pos
    THEN BufRead(rd, -1)
    ELSE BufRead(rd, count * width)

\* if len(data) < size: raise EOFError
Checked(r, size) ==
    IF Failed(r) \/ Len(r.v) = size THEN r ELSE [r EXCEPT !.err = "EOFError"]

\* a _read that pads a short read with zero bytes and raises nothing
ReadFixedPadded(rd, size) ==
    IF Failed(rd) THEN rd
    ELSE [BufRead(rd, size) EXCEPT !.v = @ \o Zeros(size - Len(@))]

\* _ByteReader._read
ReadFixed(rd, size) == Checked(BufRead(rd, size), size)

\* struct.unpack(endian + code, data)[0]; a double stands as its eight bytes
Struct(endian, code, data) ==
    CASE code = "b" -> IF data[1] >= 128 THEN data[1] - 256 ELSE data[1]
      [] code = "B" -> data[1]
      [] code = "i" -> IF endian = "<" THEN S32LE(data) ELSE S32BE(data)
      [] code = "I" -> IF endian = "<" THEN U32LE(data)
                       ELSE U32LE(<<data[4], data[3], data[2], data[1]>>)
      [] code = "q" -> IF endian = "<" THEN S64LE(data) ELSE S64BE(data)
      [] code = "d" -> data

\* the value a read_* method returns for the bytes _read returned
Unpack(code, r) ==
    IF Failed(r) THEN r ELSE [r EXCEPT !.raw = r.v, !.v = Struct(r.endian, code, r.v)]

read_int8(rd) == Unpack("b", ReadFixed(rd, 1))

read_uint8(rd) == Unpack("B", ReadFixed(rd, 1))

read_int32(rd) == Unpack("i", ReadFixed(rd, 4))

read_uint32(rd) == Unpack("I", ReadFixed(rd, 4))

read_int64(rd) == Unpack("q", ReadFixed(rd, 8))

read_double(rd) == Unpack("d", ReadFixed(rd, 8))

\* self.buf.read(length) for the length just read: no check of what came back
ReadLength(r) == BufRead(r, r.v)

\* .decode("utf-8", errors="replace") of the bytes just read
Decode(r) == IF Failed(r) THEN r ELSE [r EXCEPT !.v = DecodeUtf8(@)]

read_bytes(rd) == ReadLength(read_int32(rd))

read_str(rd) == Decode(read_bytes(rd))

read_short_str(rd) == Decode(ReadLength(read_uint8(rd)))

\* name = <the value just read>, for a local variable of the parsing function
Keep(r, name) ==
    IF Failed(r) THEN r
    ELSE [r EXCEPT !.kept = (name :> [v |-> r.v, raw |-> r.raw]) @@ @]

-----------------------------------------------------------------------------
(* _PostboxDecoder._read_value *)

\* vtype = _ValueType(<the byte just read>): ValueError for no member
ValueTypeOf(r) ==
    IF Failed(r) THEN r
    ELSE IF IsValueType(r.v) THEN [r EXCEPT !.vtype = r.v]
    ELSE [r EXCEPT !.err = "ValueError"]

\* the value just read as the Python value of type t (a bool is byte != 0)
Py(t, r) ==
    IF Failed(r) THEN r
    ELSE [r EXCEPT !.v = IF t = "bool" THEN PyBool(@ # 0) ELSE [t |-> t, v |-> @]]

\* one (type-hash, int32 length, raw bytes) triple, as decoded by _read_value
ReadObjectBody(rd) == ReadLength(read_int32(read_int32(rd)))

\* one element of an array payload
ReadElement(rd, vtype) ==
    IF vtype = Int32Array THEN read_int32(rd)
    ELSE IF vtype = Int64Array THEN read_int64(rd)
    ELSE IF vtype = StringArray THEN read_str(rd)
    ELSE IF vtype = BytesArray THEN read_bytes(rd)
    ELSE ReadObjectBody(rd)

\* items.append(<the element just read>)
Collect(r) == IF Failed(r) THEN r ELSE [r EXCEPT !.items = Append(@, r.v)]

\* [read() for _ in range(count)]: stops with EOFError at the first short read
RECURSIVE ReadElements(_, _, _)
ReadElements(rd, count, vtype) ==
    IF Failed(rd) \/ count <= 0 THEN rd
    ELSE ReadElements(Collect(ReadElement(rd, vtype)), count - 1, vtype)

\* the ObjectDictionary loop: key object and value object, both discarded
RECURSIVE ReadDictPairs(_, _)
ReadDictPairs(rd, count) ==
    IF Failed(rd) \/ count <= 0 THEN rd
    ELSE ReadDictPairs(ReadObjectBody(ReadObjectBody(rd)), count - 1)

\* return vtype, items
Listed(r) == IF Failed(r) THEN r ELSE [r EXCEPT !.v = PyList(r.items)]

\* the array branches, for the reader c after count = read_int32()
ReadItems(c) ==
    IF Failed(c) THEN c
    ELSE IF c.vtype = ObjectDictionary
    THEN Listed(ReadDictPairs([c EXCEPT !.items = <<>>], c.v))
    ELSE Listed(ReadElements([c EXCEPT !.items = <<>>], c.v, c.vtype))

\* the if / elif chain of _read_value, for the reader r after the tag
ReadTyped(r) ==
    IF Failed(r) THEN r
    ELSE IF r.vtype = Int32 THEN Py("int", read_int32(r))
    ELSE IF r.vtype = Int64 THEN Py("int", read_int64(r))
    ELSE IF r.vtype = Bool THEN Py("bool", read_uint8(r))
    ELSE IF r.vtype = Double THEN Py("float", read_double(r))
    ELSE IF r.vtype = String THEN Py("str", read_str(r))
    ELSE IF r.vtype = Object THEN Py("bytes", ReadObjectBody(r))
    ELSE IF r.vtype = Bytes THEN Py("bytes", read_bytes(r))
    ELSE IF r.vtype = Nil THEN [r EXCEPT !.v = PyNone]
    ELSE ReadItems(read_int32(r))

\* afterwards vtype and v are the pair returned, or err the exception raised
_read_value(rd) == ReadTyped(ValueTypeOf(read_uint8(rd)))

-----------------------------------------------------------------------------
(* _PostboxDecoder.decode_all_fields / get_string / get_int64 *)

\* key = <the short string just read>
KeyOf(r) == IF Failed(r) THEN r ELSE [r EXCEPT !.key = r.v]

\* one pass of the scanning loops: the short-string key, then _read_value
ReadRecord(rd) == _read_value(KeyOf(read_short_str(rd)))

\* fields[key] = value, recorded in stream order
Assign(r) ==
    IF Failed(r) THEN r
    ELSE [r EXCEPT !.fields = Append(@, [key |-> r.key, vtype |-> r.vtype, val |-> r.v])]

\* the while loop of decode_all_fields: an exception ends it
RECURSIVE ScanRecords(_)
ScanRecords(rd) ==
    IF Failed(rd) \/ rd.pos >= Len(rd.buf) THEN rd
    ELSE ScanRecords(Assign(ReadRecord(rd)))

\* the dict after the assignments recs: the last assignment to a key stays
DictOf(recs) ==
    LET keys == {recs[i].key : i \in 1..Len(recs)}
        last(k) == CHOOSE i \in 1..Len(recs) :
                       /\ recs[i].key = k
                       /\ \A j \in (i + 1)..Len(recs) : recs[j].key # k
    IN  [k \in keys |-> recs[last(k)].val]

decode_all_fields(buf) == DictOf(ScanRecords(Reader(buf, "<")).fields)

\* the loop of get_string / get_int64: the first record with the key and the
\* type is returned; an exception or the end of the buffer gives None
RECURSIVE SeekField(_, _, _)
SeekMatch(r, key, vtype) ==
    IF Failed(r) THEN PyNone
    ELSE IF r.key = key /\ r.vtype = vtype THEN r.v
    ELSE SeekField(r, key, vtype)

SeekField(rd, key, vtype) ==
    IF rd.pos >= Len(rd.buf) THEN PyNone
    ELSE SeekMatch(ReadRecord(rd), key, vtype)

get_string(buf, key) == SeekField(Reader(buf, "<"), key, String)

get_int64(buf, key) == SeekField(Reader(buf, "<"), key, Int64)

-----------------------------------------------------------------------------
(* _PostboxDecoder._skip_value *)

\* buf.read(4), read_int32, buf.read(length): one (hash, length, bytes) triple
SkipTriple(rd) == ReadLength(read_int32(BufRead(rd, 4)))

\* the ObjectArray loop
RECURSIVE SkipObjects(_, _)
SkipObjects(rd, count) ==
    IF Failed(rd) \/ count <= 0 THEN rd ELSE SkipObjects(SkipTriple(rd), count - 1)

\* the ObjectDictionary loop: a key triple and a value triple per entry
RECURSIVE SkipDictPairs(_, _)
SkipDictPairs(rd, count) ==
    IF Failed(rd) \/ count <= 0 THEN rd
    ELSE SkipDictPairs(SkipTriple(SkipTriple(rd)), count - 1)

\* the StringArray / BytesArray loop: read_int32, buf.read(length)
RECURSIVE SkipBlobs(_, _)
SkipBlobs(rd, count) ==
    IF Failed(rd) \/ count <= 0 THEN rd
    ELSE SkipBlobs(ReadLength(read_int32(rd)), count - 1)

SkipLoop(rd, count, vtype) ==
    IF vtype = ObjectArray THEN SkipObjects(rd, count)
    ELSE IF vtype = ObjectDictionary THEN SkipDictPairs(rd, count)
    ELSE SkipBlobs(rd, count)

\* the branches that start with a read_int32, for the reader c after it
SkipCounted(c, vtype) ==
    IF Failed(c) THEN c
    ELSE IF vtype \in {String, Bytes} THEN BufRead(c, c.v)
    ELSE IF vtype = Int32Array THEN BufReadScaled(c, c.v, 4)
    ELSE IF vtype = Int64Array THEN BufReadScaled(c, c.v, 8)
    ELSE SkipLoop(c, c.v, vtype)

_skip_value(rd, vtype) ==
    IF vtype = Int32 THEN BufRead(rd, 4)
    ELSE IF vtype \in {Int64, Double} THEN BufRead(rd, 8)
    ELSE IF vtype = Bool THEN BufRead(rd, 1)
    ELSE IF vtype = Nil THEN rd
    ELSE IF vtype = Object THEN SkipTriple(rd)
    ELSE SkipCounted(read_int32(rd), vtype)

-----------------------------------------------------------------------------
(* _MessageFlags, _MessageDataFlags, _FwdInfoFlags *)

Incoming == 4

GloballyUniqueId == 1
GlobalTags == 2
GroupingKey == 4
GroupInfo == 8
LocalTags == 16
ThreadId == 32

SourceId == 2
SourceMessage == 4
Signature == 8
PsaType == 16
Flags == 32

\* flag in flags, for a one-bit flag and a non-negative flags value
HasBit(flags, flag) == (flags \div flag) % 2 = 1

\* _FwdInfoFlags(v) for the signed byte v: the member bits of the byte.  The
\* enum maps -64, which has no member bit and lies inside ~all_bits..all_bits,
\* to the empty flag set; every other byte keeps its bit pattern.
FwdInfoFlagsOf(v) == IF v = -64 THEN 0 ELSE IF v < 0 THEN v + 256 ELSE v

-----------------------------------------------------------------------------
(* _parse_message_key *)

\* a dict whose message_id is filled from the timestamp
MessageKeyOfStampAsId(r) ==
    IF Failed(r)
    THEN [err |-> r.err, peer_id |-> 0, namespace |-> 0, timestamp |-> 0, message_id |-> 0]
    ELSE [err |-> "", peer_id |-> r.kept["peer_id"].v,
          namespace |-> r.kept["namespace"].v,
          timestamp |-> r.kept["timestamp"].v,
          message_id |-> r.kept["timestamp"].v]

\* the dict returned, or the EOFError a short key raises
MessageKeyOf(r) ==
    IF Failed(r)
    THEN [err |-> r.err, peer_id |-> 0, namespace |-> 0, timestamp |-> 0, message_id |-> 0]
    ELSE [err |-> "", peer_id |-> r.kept["peer_id"].v,
          namespace |-> r.kept["namespace"].v,
          timestamp |-> r.kept["timestamp"].v,
          message_id |-> r.kept["message_id"].v]

\* the key read with the timestamp before the namespace
ParseMessageKeySwapped(key) ==
    MessageKeyOf(
        Keep(read_int32(
        Keep(read_int32(
        Keep(read_int32(
        Keep(read_int64(Reader(key, ">")), "peer_id")), "timestamp")), "namespace")),
        "message_id"))

\* the four reads of a ">"-endian reader, innermost first
_parse_message_key(key) ==
    MessageKeyOf(
        Keep(read_int32(
        Keep(read_int32(
        Keep(read_int32(
        Keep(read_int64(Reader(key, ">")), "peer_id")), "namespace")), "timestamp")),
        "message_id"))

-----------------------------------------------------------------------------
(* _parse_fwd_info and the optional fields of _parse_message_value *)

\* if <flag> in <flags>: <read>, for one entry f of a field table
ReadField(rd, flags, f) ==
    IF ~HasBit(flags, f.flag) THEN rd
    ELSE IF f.kind = "str" THEN read_str(rd)
    ELSE ReadFixed(rd, f.size)

\* the chain of "if flag in flags" statements, in the order of the table
RECURSIVE ReadOptional(_, _, _)
ReadOptional(rd, flags, todo) ==
    IF Failed(rd) \/ todo = <<>> THEN rd
    ELSE ReadOptional(ReadField(rd, flags, Head(todo)), flags, Tail(todo))

FwdFields ==
    << [flag |-> SourceId, kind |-> "fixed", size |-> 8],
       [flag |-> SourceMessage, kind |-> "fixed", size |-> 8],
       [flag |-> SourceMessage, kind |-> "fixed", size |-> 4],
       [flag |-> SourceMessage, kind |-> "fixed", size |-> 4],
       [flag |-> Signature, kind |-> "str", size |-> 0],
       [flag |-> PsaType, kind |-> "str", size |-> 0],
       [flag |-> Flags, kind |-> "fixed", size |-> 4] >>

\* _FwdInfoFlags(<the signed byte just read>)
FwdFlags(r) == IF Failed(r) THEN r ELSE [r EXCEPT !.v = FwdInfoFlagsOf(@)]

\* after info_flags: return None for 0, else author_id, date, optional fields
FwdBody(r) ==
    IF Failed(r) \/ r.v = 0 THEN r
    ELSE ReadOptional(Keep(read_int32(Keep(read_int64(r), "fwd_author_id")), "fwd_date"),
                      r.v, FwdFields)

\* the reader after _parse_fwd_info(reader); kept["info_flags"] = 0 is the
\* None returned, otherwise kept holds the author_id and the date returned
_parse_fwd_info(rd) == FwdBody(Keep(FwdFlags(read_int8(rd)), "info_flags"))

-----------------------------------------------------------------------------
(* _parse_message_value *)

DataFields ==
    << [flag |-> GloballyUniqueId, kind |-> "fixed", size |-> 8],
       [flag |-> GlobalTags, kind |-> "fixed", size |-> 4],
       [flag |-> GroupingKey, kind |-> "fixed", size |-> 8],
       [flag |-> GroupInfo, kind |-> "fixed", size |-> 4],
       [flag |-> LocalTags, kind |-> "fixed", size |-> 4],
       [flag |-> ThreadId, kind |-> "fixed", size |-> 8] >>

\* the None that _parse_message_value returns
NoMessage == [some |-> FALSE, text |-> <<>>, author_id |-> PyNone,
              incoming |-> FALSE, pos |-> 0]

\* a parser that goes on whatever the discriminator is
MsgTypeAny(r) == r

\* if msg_type != 0: return None
MsgType(r) ==
    IF Failed(r) THEN r ELSE IF r.v # 0 THEN [r EXCEPT !.err = "return"] ELSE r

\* the optional fields that data_flags, just read, announces
DataOptional(r) == IF Failed(r) THEN r ELSE ReadOptional(r, r.v, DataFields)

\* an author read for every flag other than 0
AuthorIdNonZero(r) ==
    IF Failed(r) THEN r
    ELSE IF r.v # 0 THEN Keep(read_int64(r), "author_id")
    ELSE r

\* if has_author == 1: author_id = reader.read_int64()
AuthorId(r) ==
    IF Failed(r) THEN r
    ELSE IF r.v = 1 THEN Keep(read_int64(r), "author_id")
    ELSE r

\* the dict returned after text = reader.read_str(); None after an exception
\* or the early return.  pos is the cursor after the text.
MessageOf(r) ==
    IF Failed(r) THEN NoMessage
    ELSE [some |-> TRUE, text |-> r.v,
          author_id |-> IF "author_id" \in DOMAIN r.kept
                        THEN PyInt(r.kept["author_id"].v) ELSE PyNone,
          incoming |-> HasBit(r.kept["flags"].raw[1], Incoming),
          pos |-> r.pos]

\* the statements of the try block, innermost first: msg_type, _stable_id,
\* _stable_ver, data_flags and its fields, flags, _tags, _fwd_info,
\* has_author and author_id, text
_parse_message_value(data) ==
    MessageOf(
        read_str(
        AuthorId(read_int8(
        _parse_fwd_info(
        read_uint32(
        Keep(read_uint32(
        DataOptional(read_uint8(
        read_uint32(
        read_uint32(
        MsgType(read_int8(Reader(data, "<")))))))), "flags")))))))

-----------------------------------------------------------------------------
(* _parse_peer *)

EmptyStr == PyStr(<<>>)

\* {"first_name": "", "last_name": "", "username": "", "title": "", "phone": ""}
EmptyPeer == [first_name |-> EmptyStr, last_name |-> EmptyStr,
              username |-> EmptyStr, title |-> EmptyStr, phone |-> EmptyStr]

\* dict.get(key, "")
FieldGet(fields, key) == IF key \in DOMAIN fields THEN fields[key] ELSE EmptyStr

\* the dict built from the decoded inner stream: fn, ln, un, t, p
PeerOfFields(fields) ==
    [first_name |-> FieldGet(fields, <<102, 110>>),
     last_name |-> FieldGet(fields, <<108, 110>>),
     username |-> FieldGet(fields, <<117, 110>>),
     title |-> FieldGet(fields, <<116>>),
     phone |-> FieldGet(fields, <<112>>)]

\* return None; exc is the exception that left _parse_peer ("" for none)
NoPeer == [some |-> FALSE, peer |-> EmptyPeer, exc |-> ""]

\* an except clause that names EOFError only
PeerExceptEOFOnly(r) ==
    IF r.err = "EOFError" THEN NoPeer ELSE [NoPeer EXCEPT !.exc = r.err]

\* except (EOFError, struct.error, ValueError): pass, and then return None;
\* any other exception leaves the function
PeerExcept(r) ==
    IF r.err \in {"EOFError", "struct.error", "ValueError"} THEN NoPeer
    ELSE [NoPeer EXCEPT !.exc = r.err]

\* the dict returned for the inner stream just read (buf.read(data_len))
PeerInner(r) ==
    IF Failed(r) THEN PeerExcept(r)
    ELSE [some |-> TRUE, peer |-> PeerOfFields(decode_all_fields(r.v)), exc |-> ""]

\* the while loop over the outer stream, looking for key "_" with tag Object;
\* PeerValue is the loop body for the reader r after vtype_raw was read
RECURSIVE ScanPeer(_)
PeerValue(r) ==
    IF Failed(r) THEN PeerExcept(r)
    ELSE IF r.key = <<95>> /\ r.v = Object
    THEN PeerInner(ReadLength(read_int32(read_int32(r))))
    ELSE ScanPeer(_skip_value(ValueTypeOf(r), r.v))

ScanPeer(rd) ==
    IF Failed(rd) THEN PeerExcept(rd)
    ELSE IF rd.pos >= Len(rd.buf) THEN NoPeer
    ELSE PeerValue(read_uint8(KeyOf(read_short_str(rd))))

\* returns [some, peer]; some = FALSE is None
_parse_peer(data) == IF Len(data) < 8 THEN NoPeer ELSE ScanPeer(Reader(data, "<"))

-----------------------------------------------------------------------------
(* _peer_display_name *)

\* bool(v) for a decoded value
Truthy(v) ==
    CASE v.t = "str" -> v.v # <<>>
      [] v.t = "bytes" -> v.v # <<>>
      [] v.t = "list" -> v.v # <<>>
      [] v.t = "int" -> v.v # 0
      [] v.t = "bool" -> v.v
      [] v.t = "None" -> FALSE
      [] v.t = "float" -> ~(SubSeq(v.v, 1, 7) = Zeros(7) /\ v.v[8] \in {0, 128})

RECURSIVE Decimal(_)
Decimal(n) ==
    IF n < 0 THEN <<45>> \o Decimal(0 - n)
    ELSE IF n < 10 THEN <<48 + n>>
    ELSE Decimal(n \div 10) \o <<48 + (n % 10)>>

\* format(v) inside an f-string, for the str, int, bool and None values the
\* model's peers hold
Format(v) ==
    CASE v.t = "str" -> v.v
      [] v.t = "int" -> Decimal(v.v)
      [] v.t = "bool" -> IF v.v THEN <<84, 114, 117, 101>> ELSE <<70, 97, 108, 115, 101>>
      [] v.t = "None" -> <<78, 111, 110, 101>>

\* str.isspace() of one code point
IsSpace(c) ==
    \/ c \in 9..13 \/ c \in 28..32 \/ c \in {133, 160, 5760, 8232, 8233, 8239, 8287, 12288}
    \/ c \in 8192..8202

RECURSIVE LStrip(_)
LStrip(s) == IF s # <<>> /\ IsSpace(Head(s)) THEN LStrip(Tail(s)) ELSE s

RECURSIVE RStrip(_)
RStrip(s) ==
    IF s # <<>> /\ IsSpace(s[Len(s)]) THEN RStrip(SubSeq(s, 1, Len(s) - 1)) ELSE s

Strip(s) == RStrip(LStrip(s))

_peer_display_name(peer) ==
    LET name == Strip(Format(peer.first_name) \o <<32>> \o Format(peer.last_name))
    IN  IF Truthy(peer.title) THEN peer.title
        ELSE IF name # <<>> THEN PyStr(name)
        ELSE IF Truthy(peer.username) THEN PyStr(<<64>> \o Format(peer.username))
        ELSE PyStr(<<85, 110, 107, 110, 111, 119, 110>>)

-----------------------------------------------------------------------------
(* SQLite: BLOB comparison, ORDER BY, LIMIT, substr *)

\* memcmp order of two BLOBs; a proper prefix sorts first
BytesLess(a, b) ==
    LET n == Min(Len(a), Len(b))
    IN  \/ \E i \in 1..n : a[i] < b[i] /\ \A j \in 1..(i - 1) : a[j] = b[j]
        \/ Len(a) < Len(b) /\ \A j \in 1..n : a[j] = b[j]

\* ORDER BY key DESC over rows with distinct keys
RECURSIVE OrderByKeyDesc(_)
OrderByKeyDesc(rows) ==
    IF rows = {} THEN <<>>
    ELSE LET top == CHOOSE r \in rows : \A q \in rows : ~BytesLess(r.key, q.key)
         IN  <<top>> \o OrderByKeyDesc(rows \ {top})

\* LIMIT n: a negative n is no limit
SqlLimit(rows, n) == IF n < 0 THEN rows ELSE SubSeq(rows, 1, Min(n, Len(rows)))

\* substr(key, 1, 8)
Substr8(key) == SubSeq(key, 1, Min(8, Len(key)))

-----------------------------------------------------------------------------
(* TelegramDB._ensure_connection and close *)

NoPath == 0

\* what one run of the pipeline can meet: the stored hash differs; sqlcipher
\* exits non-zero without or with an output file; exits zero with no file or
\* with a zero-length file; sqlite3.connect fails; everything succeeds
Outcomes == {"hash_mismatch", "export_failed", "export_failed_file",
             "export_missing", "export_empty", "connect_failed", "ok"}

\* a key decryption that returns the key without comparing the hashes
DecryptKeyUnchecked(o) == ""

\* _decrypt_key: RuntimeError when db_hash != calc_hash
_decrypt_key(o) ==
    IF o = "hash_mismatch" THEN "RuntimeError: Key integrity check failed" ELSE ""

\* an export that tests the output file for existence only
DecryptDatabaseAnySize(o, p) ==
    LET created == o \in {"export_failed_file", "export_empty", "connect_failed", "ok"}
        exc == IF o \in {"export_failed", "export_failed_file"}
               THEN "RuntimeError: sqlcipher export failed"
               ELSE IF o = "export_missing"
               THEN "RuntimeError: sqlcipher produced empty output"
               ELSE ""
    IN  [exc |-> exc, path |-> p,
         disk |-> IF created THEN disk \cup {p} ELSE disk,
         exported |-> IF created THEN exported \cup {p} ELSE exported,
         filled |-> IF created /\ o # "export_empty" THEN filled \cup {p} ELSE filled]

\* _decrypt_database at the temporary name p: the file sqlcipher leaves
\* behind, and the path returned or the RuntimeError raised
_decrypt_database(o, p) ==
    LET created == o \in {"export_failed_file", "export_empty", "connect_failed", "ok"}
        exc == IF o \in {"export_failed", "export_failed_file"}
               THEN "RuntimeError: sqlcipher export failed"
               ELSE IF o \in {"export_missing", "export_empty"}
               THEN "RuntimeError: sqlcipher produced empty output"
               ELSE ""
    IN  [exc |-> exc, path |-> p,
         disk |-> IF created THEN disk \cup {p} ELSE disk,
         exported |-> IF created THEN exported \cup {p} ELSE exported,
         filled |-> IF created /\ o # "export_empty" THEN filled \cup {p} ELSE filled]

\* _ensure_connection from "if not self.available" on: the instance and the
\* disk afterwards, and what was raised
OpenStore(o, p) ==
    LET same == [exc |-> "", conn |-> conn, path |-> plaintext_path,
                 disk |-> disk, exported |-> exported, filled |-> filled, runs |-> runs,
          met |-> ""]
        k == _decrypt_key(o)
        d == _decrypt_database(o, p)
    IN  IF ~available THEN [same EXCEPT !.exc = "SystemExit"]
        ELSE IF k # "" THEN [same EXCEPT !.exc = k, !.met = o]
        ELSE IF d.exc # ""
        THEN [same EXCEPT !.exc = d.exc, !.runs = runs + 1, !.met = o,
                          !.disk = d.disk, !.exported = d.exported,
                          !.filled = d.filled]
        ELSE [exc |-> IF o = "connect_failed" THEN "sqlite3.Error" ELSE "",
              conn |-> o # "connect_failed", path |-> d.path,
              disk |-> d.disk, exported |-> d.exported, filled |-> d.filled,
              runs |-> runs + 1,
              met |-> o]

\* a lazy open that opens again although the connection is there
EnsureConnectionAlways(o, p) == OpenStore(o, p)

\* a lazy open that returns when the source files are missing
EnsureConnectionQuiet(o, p) ==
    IF conn \/ ~available
    THEN [exc |-> "", conn |-> conn, path |-> plaintext_path,
          disk |-> disk, exported |-> exported, filled |-> filled, runs |-> runs,
          met |-> ""]
    ELSE OpenStore(o, p)

\* _ensure_connection: nothing to do when the connection is there
_ensure_connection(o, p) ==
    IF conn
    THEN [exc |-> "", conn |-> conn, path |-> plaintext_path,
          disk |-> disk, exported |-> exported, filled |-> filled, runs |-> runs,
          met |-> ""]
    ELSE OpenStore(o, p)

\* the outcomes an _ensure_connection call can meet
OpenOutcomes == IF conn \/ ~available THEN {"ok"} ELSE env

\* tempfile.mktemp: a name that does not exist at the time of the call.  For
\* one instance the names are interchangeable, so the least unused one stands
\* for the random name; a name whose file was deleted can come back.
FreshPaths(paths) ==
    IF conn \/ ~available THEN {NoPath}
    ELSE {p \in paths \ disk : \A q \in paths \ disk : p <= q}

-----------------------------------------------------------------------------
(* TelegramDB._get_peer *)

\* peer = _parse_peer(row[0]); if not peer: the empty peer
PeerOrEmpty(parsed) == IF parsed.some THEN parsed.peer ELSE EmptyPeer

\* SELECT value FROM t2 WHERE key = ? LIMIT 1, then _parse_peer or the empty peer
LookupPeer(tbl2, peer_id) ==
    IF {r \in tbl2 : r.key = peer_id} = {} THEN EmptyPeer
    ELSE PeerOrEmpty(_parse_peer((CHOOSE r \in tbl2 : r.key = peer_id).value))

\* a cache that keeps the last resolved peer only
CacheOnlyPeer(cache, peer_id, result) ==
    [peer |-> result, cache |-> (peer_id :> result)]

\* self._peer_cache[peer_id] = result; return result
CachePeer(cache, peer_id, result) ==
    [peer |-> result, cache |-> cache @@ (peer_id :> result)]

\* returns the peer and the cache after the call
_get_peer(tbl2, cache, peer_id) ==
    IF peer_id \in DOMAIN cache
    THEN [peer |-> cache[peer_id], cache |-> cache]
    ELSE CachePeer(cache, peer_id, LookupPeer(tbl2, peer_id))

-----------------------------------------------------------------------------
(* TelegramDB.read_messages / search_messages / stats *)

Me == PyStr(<<77, 101>>)

\* datetime.fromtimestamp(ts).strftime("%Y-%m-%d %H:%M:%S"): the formatted
\* local time of the instant ts
Strftime(ts) == [fmt |-> "%Y-%m-%d %H:%M:%S", instant |-> ts]

\* msg["author_id"] or idx["peer_id"]
AuthorOf(msg, idx) == IF Truthy(msg.author_id) THEN msg.author_id.v ELSE idx.peer_id

\* _peer_display_name of the peer that _get_peer returned
Named(g) == [sender |-> _peer_display_name(g.peer), cache |-> g.cache]

\* the sender of a message and the cache after resolving it
ResolveSender(tbl2, cache, msg, idx) ==
    IF msg.incoming THEN Named(_get_peer(tbl2, cache, AuthorOf(msg, idx)))
    ELSE [sender |-> Me, cache |-> cache]

\* results.append({...}) of read_messages, with the sender s resolved
ReadRecordOf(acc, idx, msg, s) ==
    [acc EXCEPT !.val = Append(@, [timestamp |-> Strftime(idx.timestamp),
                                   sender |-> s.sender, text |-> msg.text,
                                   edited |-> FALSE, peer_id |-> idx.peer_id,
                                   message_id |-> idx.message_id]),
                !.cache = s.cache]

\* the body of the for loop of read_messages for one row; acc is [exc, val,
\* cache]: the exception raised, the results so far, the peer cache
ReadRow(tbl2, acc, idx, msg) ==
    IF idx.err # "" THEN [acc EXCEPT !.exc = idx.err, !.val = <<>>]
    ELSE IF ~msg.some \/ msg.text = <<>> THEN acc
    ELSE ReadRecordOf(acc, idx, msg, ResolveSender(tbl2, acc.cache, msg, idx))

\* the for loop of read_messages over the fetched rows
RECURSIVE ReadLoop(_, _, _)
ReadLoop(rows, tbl2, acc) ==
    IF rows = <<>> \/ acc.exc # "" THEN acc
    ELSE ReadLoop(Tail(rows), tbl2,
                  ReadRow(tbl2, acc, _parse_message_key(Head(rows).key),
                          _parse_message_value(Head(rows).value)))

\* a read whose query has no WHERE clause
ReadMessagesAnyPeer(tbl7, tbl2, cache, peer_id, limit) ==
    ReadLoop(SqlLimit(OrderByKeyDesc(tbl7), limit),
             tbl2, [exc |-> "", val |-> <<>>, cache |-> cache])

\* read_messages after _ensure_connection
read_messages(tbl7, tbl2, cache, peer_id, limit) ==
    ReadLoop(SqlLimit(OrderByKeyDesc({r \in tbl7 : Substr8(r.key) = PackS64BE(peer_id)}),
                      limit),
             tbl2, [exc |-> "", val |-> <<>>, cache |-> cache])

\* results.append({...}) of search_messages, with the sender s resolved
SearchRecordOf(acc, idx, msg, g, s) ==
    [acc EXCEPT !.val = Append(@, [timestamp |-> Strftime(idx.timestamp),
                                   chat_name |-> _peer_display_name(g.peer),
                                   sender |-> s.sender, text |-> msg.text,
                                   peer_id |-> idx.peer_id]),
                !.cache = s.cache]

\* a matching row of search_messages after peer = self._get_peer(peer_id)
SearchChat(tbl2, acc, idx, msg, g) ==
    SearchRecordOf(acc, idx, msg, g, ResolveSender(tbl2, g.cache, msg, idx))

\* a matching row of search_messages after idx = _parse_message_key(key)
SearchMatch(tbl2, acc, idx, msg) ==
    IF idx.err # "" THEN [acc EXCEPT !.exc = idx.err, !.val = <<>>]
    ELSE SearchChat(tbl2, acc, idx, msg, _get_peer(tbl2, acc.cache, idx.peer_id))

\* a loop body that compares the text as it is stored
SearchRowCaseSensitive(row, tbl2, acc, query_lower, msg) ==
    IF ~msg.some \/ msg.text = <<>> THEN acc
    ELSE IF ~Contains(msg.text, query_lower) THEN acc
    ELSE SearchMatch(tbl2, acc, _parse_message_key(row.key), msg)

\* the body of the for loop of search_messages for one row
SearchRow(row, tbl2, acc, query_lower, msg) ==
    IF ~msg.some \/ msg.text = <<>> THEN acc
    ELSE IF ~Contains(Lower(msg.text), query_lower) THEN acc
    ELSE SearchMatch(tbl2, acc, _parse_message_key(row.key), msg)

\* the for loop of search_messages: it ends when limit results are there
RECURSIVE SearchLoop(_, _, _, _, _)
SearchLoop(rows, tbl2, acc, query_lower, limit) ==
    IF rows = <<>> \/ acc.exc # "" \/ Len(acc.val) >= limit THEN acc
    ELSE SearchLoop(Tail(rows), tbl2,
                    SearchRow(Head(rows), tbl2, acc, query_lower,
                              _parse_message_value(Head(rows).value)),
                    query_lower, limit)

\* search_messages after _ensure_connection
search_messages(tbl7, tbl2, cache, query, limit) ==
    SearchLoop(OrderByKeyDesc(tbl7), tbl2, [exc |-> "", val |-> <<>>, cache |-> cache],
               Lower(query), limit)

\* stats after _ensure_connection
stats(tbl7, tbl2) == [messages |-> Cardinality(tbl7), peers |-> Cardinality(tbl2)]

-----------------------------------------------------------------------------
(* TelegramDB.find_chats / find_peer_by_phone / resolve_identifier *)

\* the decimal digits of the Unicode database (category Nd): every range holds
\* the digits 0 to 9 in order, once or several times
DecimalRanges ==
    {<<48, 57>>, <<1632, 1641>>, <<1776, 1785>>, <<1984, 1993>>, <<2406, 2415>>, <<2534,
     2543>>, <<2662, 2671>>, <<2790, 2799>>, <<2918, 2927>>, <<3046, 3055>>, <<3174,
     3183>>, <<3302, 3311>>, <<3430, 3439>>, <<3558, 3567>>, <<3664, 3673>>, <<3792,
     3801>>, <<3872, 3881>>, <<4160, 4169>>, <<4240, 4249>>, <<6112, 6121>>, <<6160,
     6169>>, <<6470, 6479>>, <<6608, 6617>>, <<6784, 6793>>, <<6800, 6809>>, <<6992,
     7001>>, <<7088, 7097>>, <<7232, 7241>>, <<7248, 7257>>, <<42528, 42537>>, <<43216,
     43225>>, <<43264, 43273>>, <<43472, 43481>>, <<43504, 43513>>, <<43600, 43609>>,
     <<44016, 44025>>, <<65296, 65305>>, <<66720, 66729>>, <<68912, 68921>>, <<69734,
     69743>>, <<69872, 69881>>, <<69942, 69951>>, <<70096, 70105>>, <<70384, 70393>>,
     <<70736, 70745>>, <<70864, 70873>>, <<71248, 71257>>, <<71360, 71369>>, <<71472,
     71481>>, <<71904, 71913>>, <<72016, 72025>>, <<72784, 72793>>, <<73040, 73049>>,
     <<73120, 73129>>, <<92768, 92777>>, <<92864, 92873>>, <<93008, 93017>>, <<120782,
     120831>>, <<123200, 123209>>, <<123632, 123641>>, <<125264, 125273>>, <<130032,
     130041>>}

\* re \d on a str, str.isdecimal() of one code point
IsDecimal(c) == IF c < 128 THEN c >= 48 /\ c <= 57 ELSE InRanges(c, DecimalRanges)

\* the value int() gives the decimal digit c
DigitValue(c) ==
    IF c < 128 THEN c - 48
    ELSE (c - (CHOOSE r \in DecimalRanges : c >= r[1] /\ c <= r[2])[1]) % 10

\* the digits that are not decimal (superscripts, circled digits, ...), which
\* int() does not accept
DigitRanges ==
    {<<178, 179>>, <<185, 185>>, <<4969, 4977>>, <<6618, 6618>>, <<8304, 8304>>, <<8308,
     8313>>, <<8320, 8329>>, <<9312, 9320>>, <<9332, 9340>>, <<9352, 9360>>, <<9450,
     9450>>, <<9461, 9469>>, <<9471, 9471>>, <<10102, 10110>>, <<10112, 10120>>,
     <<10122, 10130>>, <<68160, 68163>>, <<69216, 69224>>, <<69714, 69722>>, <<127232,
     127242>>}

\* str.isdigit() of one code point
IsDigitChar(c) == IsDecimal(c) \/ (c >= 128 /\ InRanges(c, DigitRanges))

\* re.sub(r"\D", "", s)
RECURSIVE Digits(_)
Digits(s) ==
    IF s = <<>> THEN <<>>
    ELSE (IF IsDecimal(Head(s)) THEN <<Head(s)>> ELSE <<>>) \o Digits(Tail(s))

\* stripped.isdigit()
IsDigit(s) == s # <<>> /\ \A i \in 1..Len(s) : IsDigitChar(s[i])

\* int(s) of a str of decimal digits
RECURSIVE IntOf(_)
IntOf(s) == IF s = <<>> THEN 0 ELSE IntOf(SubSeq(s, 1, Len(s) - 1)) * 10 + DigitValue(s[Len(s)])

\* SELECT key, value FROM t2: the rows of the integer-keyed table in rowid order
RECURSIVE ScanPeers(_)
ScanPeers(rows) ==
    IF rows = {} THEN <<>>
    ELSE LET first == CHOOSE r \in rows : \A q \in rows : r.key <= q.key
         IN  <<first>> \o ScanPeers(rows \ {first})

\* f"{name} {peer.get('username', '')} {peer.get('phone', '')}".lower()
Searchable(peer) ==
    Lower(Format(_peer_display_name(peer)) \o <<32>> \o Format(peer.username)
          \o <<32>> \o Format(peer.phone))

\* the dict find_chats appends for a peer
ChatOf(peer_id, peer) ==
    [peer_id |-> peer_id, name |-> _peer_display_name(peer),
     username |-> peer.username, phone |-> peer.phone]

\* a match that compares the query with the phone as it is stored
ChatMatchesRaw(peer, query) ==
    \/ Contains(Searchable(peer), Lower(query))
    \/ Digits(query) # <<>> /\ Contains(peer.phone.v, Digits(query))

\* query_lower in searchable or (query_digits and query_digits in phone_digits)
ChatMatches(peer, query) ==
    \/ Contains(Searchable(peer), Lower(query))
    \/ Digits(query) # <<>> /\ Contains(Digits(peer.phone.v), Digits(query))

\* the loop body of find_chats for a row whose value parsed to peer; re.sub
\* raises TypeError for a phone that is not a str
FindChatsRow(acc, peer_id, parsed, query) ==
    IF ~parsed.some THEN acc
    ELSE IF parsed.peer.phone.t # "str"
    THEN [acc EXCEPT !.exc = "TypeError", !.val = <<>>,
                     !.cache = (peer_id :> parsed.peer) @@ @]
    ELSE IF ChatMatches(parsed.peer, query)
    THEN [acc EXCEPT !.val = Append(@, ChatOf(peer_id, parsed.peer)),
                     !.cache = (peer_id :> parsed.peer) @@ @]
    ELSE [acc EXCEPT !.cache = (peer_id :> parsed.peer) @@ @]

RECURSIVE FindChatsLoop(_, _, _)
FindChatsLoop(rows, acc, query) ==
    IF rows = <<>> \/ acc.exc # "" THEN acc
    ELSE FindChatsLoop(Tail(rows),
                       FindChatsRow(acc, Head(rows).key, _parse_peer(Head(rows).value),
                                    query),
                       query)

\* find_chats after _ensure_connection: [exc, val, cache]
find_chats(tbl2, cache, query) ==
    FindChatsLoop(ScanPeers(tbl2), [exc |-> "", val |-> <<>>, cache |-> cache], query)

\* the loop body of find_peer_by_phone; done marks the return inside the loop
FindPhoneRow(acc, peer_id, parsed, digits) ==
    IF ~parsed.some THEN acc
    ELSE IF parsed.peer.phone.t # "str"
    THEN [acc EXCEPT !.exc = "TypeError", !.cache = (peer_id :> parsed.peer) @@ @]
    ELSE IF Digits(parsed.peer.phone.v) # <<>>
            /\ Contains(Digits(parsed.peer.phone.v), digits)
    THEN [acc EXCEPT !.val = PyInt(peer_id), !.done = TRUE,
                     !.cache = (peer_id :> parsed.peer) @@ @]
    ELSE [acc EXCEPT !.cache = (peer_id :> parsed.peer) @@ @]

RECURSIVE FindPhoneLoop(_, _, _)
FindPhoneLoop(rows, acc, digits) ==
    IF rows = <<>> \/ acc.exc # "" \/ acc.done THEN acc
    ELSE FindPhoneLoop(Tail(rows),
                       FindPhoneRow(acc, Head(rows).key, _parse_peer(Head(rows).value),
                                    digits),
                       digits)

\* find_peer_by_phone after _ensure_connection: [exc, val, cache, done]
find_peer_by_phone(tbl2, cache, phone_digits) ==
    IF Digits(phone_digits) = <<>>
    THEN [exc |-> "", val |-> PyNone, cache |-> cache, done |-> TRUE]
    ELSE FindPhoneLoop(ScanPeers(tbl2),
                       [exc |-> "", val |-> PyNone, cache |-> cache, done |-> FALSE],
                       Digits(phone_digits))

\* "if stripped.isdigit() and int(stripped) > 100000": the test raises
\* ValueError for a digit int() does not accept
DirectError(stripped) ==
    IF IsDigit(stripped) /\ \E i \in 1..Len(stripped) : ~IsDecimal(stripped[i])
    THEN "ValueError" ELSE ""

\* a test that takes 100000 for a peer id as well
IsDirectInclusive(stripped) ==
    IsDigit(stripped) /\ DirectError(stripped) = "" /\ IntOf(stripped) >= 100000

IsDirect(stripped) ==
    IsDigit(stripped) /\ DirectError(stripped) = "" /\ IntOf(stripped) > 100000

\* matches = self.find_chats(stripped); matches[0]["peer_id"] or None
FirstChat(f) ==
    IF f.exc # "" THEN [exc |-> f.exc, val |-> PyNone, cache |-> f.cache]
    ELSE [exc |-> "", cache |-> f.cache,
          val |-> IF f.val # <<>> THEN PyInt(f.val[1].peer_id) ELSE PyNone]

\* resolve_identifier after result = self.find_peer_by_phone(stripped)
AfterPhone(tbl2, ph, stripped) ==
    IF ph.exc # "" THEN [exc |-> ph.exc, val |-> PyNone, cache |-> ph.cache]
    ELSE IF ph.val.t # "None" THEN [exc |-> "", val |-> ph.val, cache |-> ph.cache]
    ELSE FirstChat(find_chats(tbl2, ph.cache, stripped))

\* resolve_identifier from "if re.search(r'\d', stripped)" on, with the store
\* open: [exc, val, cache]
ResolveLookup(tbl2, cache, stripped) ==
    IF \E i \in 1..Len(stripped) : IsDecimal(stripped[i])
    THEN AfterPhone(tbl2, find_peer_by_phone(tbl2, cache, stripped), stripped)
    ELSE FirstChat(find_chats(tbl2, cache, stripped))

\* resolve_identifier with the store at hand: [exc, val, cache]; the store is
\* reached only when NeedsStore holds
NeedsStore(identifier) ==
    DirectError(Strip(identifier)) = "" /\ ~IsDirect(Strip(identifier))

resolve_identifier(tbl2, cache, identifier) ==
    IF DirectError(Strip(identifier)) # ""
    THEN [exc |-> DirectError(Strip(identifier)), val |-> PyNone, cache |-> cache]
    ELSE IF IsDirect(Strip(identifier))
    THEN [exc |-> "", val |-> PyInt(IntOf(Strip(identifier))), cache |-> cache]
    ELSE ResolveLookup(tbl2, cache, Strip(identifier))

-----------------------------------------------------------------------------
(* TelegramDB.recent_chats / get_all_messages *)

\* SELECT key FROM t7 (the key index) and ORDER BY key ASC
RECURSIVE OrderByKeyAsc(_)
OrderByKeyAsc(rows) ==
    IF rows = {} THEN <<>>
    ELSE LET low == CHOOSE r \in rows : \A q \in rows : ~BytesLess(q.key, r.key)
         IN  <<low>> \o OrderByKeyAsc(rows \ {low})

\* a peer_latest that keeps the timestamp of the first key of each peer
LatestFirstSeen(acc, idx) ==
    IF idx.err # "" THEN [acc EXCEPT !.exc = idx.err]
    ELSE IF idx.peer_id \notin DOMAIN acc.ts
    THEN [acc EXCEPT !.ts = (idx.peer_id :> idx.timestamp) @@ @,
                     !.seen = Append(@, idx.peer_id)]
    ELSE acc

\* peer_latest after one more key: seen keeps the insertion order of the dict
Latest(acc, idx) ==
    IF idx.err # "" THEN [acc EXCEPT !.exc = idx.err]
    ELSE IF idx.peer_id \notin DOMAIN acc.ts
    THEN [acc EXCEPT !.ts = (idx.peer_id :> idx.timestamp) @@ @,
                     !.seen = Append(@, idx.peer_id)]
    ELSE IF idx.timestamp > acc.ts[idx.peer_id]
    THEN [acc EXCEPT !.ts = (idx.peer_id :> idx.timestamp) @@ @]
    ELSE acc

RECURSIVE PeerLatest(_, _)
PeerLatest(rows, acc) ==
    IF rows = <<>> \/ acc.exc # "" THEN acc
    ELSE PeerLatest(Tail(rows), Latest(acc, _parse_message_key(Head(rows).key)))

\* sorted(peer_latest.items(), key=lambda x: x[1], reverse=True): stable, so
\* peers with equal timestamps keep their insertion order
RECURSIVE SortedPeers(_, _)
SortedPeers(seen, ts) ==
    IF seen = <<>> THEN <<>>
    ELSE LET i == CHOOSE i \in 1..Len(seen) :
                     /\ \A j \in 1..Len(seen) : ts[seen[j]] <= ts[seen[i]]
                     /\ \A j \in 1..(i - 1) : ts[seen[j]] < ts[seen[i]]
         IN  <<seen[i]>>
             \o SortedPeers(SubSeq(seen, 1, i - 1) \o SubSeq(seen, i + 1, Len(seen)), ts)

\* sorted_peers[:limit]
Slice(xs, limit) ==
    IF limit >= 0 THEN SubSeq(xs, 1, Min(limit, Len(xs)))
    ELSE SubSeq(xs, 1, Max(0, Len(xs) + limit))

\* chats.append({...}) after peer = self._get_peer(peer_id)
RecentChatOf(acc, peer_id, last_ts, g) ==
    [acc EXCEPT !.val = Append(@, [peer_id |-> peer_id,
                                   name |-> _peer_display_name(g.peer),
                                   username |-> g.peer.username,
                                   phone |-> g.peer.phone,
                                   last_message |-> Strftime(last_ts)]),
                !.cache = g.cache]

RECURSIVE RecentLoop(_, _, _, _)
RecentLoop(peers, ts, tbl2, acc) ==
    IF peers = <<>> THEN acc
    ELSE RecentLoop(Tail(peers), ts, tbl2,
                    RecentChatOf(acc, Head(peers), ts[Head(peers)],
                                 _get_peer(tbl2, acc.cache, Head(peers))))

\* recent_chats after peer_latest was built
RecentOf(latest, tbl2, cache, limit) ==
    IF latest.exc # "" THEN [exc |-> latest.exc, val |-> <<>>, cache |-> cache]
    ELSE RecentLoop(Slice(SortedPeers(latest.seen, latest.ts), limit), latest.ts, tbl2,
                    [exc |-> "", val |-> <<>>, cache |-> cache])

\* recent_chats after _ensure_connection: [exc, val, cache]
recent_chats(tbl7, tbl2, cache, limit) ==
    RecentOf(PeerLatest(OrderByKeyAsc(tbl7), [exc |-> "", ts |-> <<>>, seen |-> <<>>]),
             tbl2, cache, limit)

\* the sender name of get_all_messages and the cache after resolving it
ExportSender(tbl2, cache, msg, idx) ==
    IF msg.incoming THEN Named(_get_peer(tbl2, cache, AuthorOf(msg, idx)))
    ELSE [sender |-> PyNone, cache |-> cache]

\* messages.append({...}) after peer = self._get_peer(idx["peer_id"])
ExportRecordOf(acc, idx, msg, s, g) ==
    [acc EXCEPT !.val = Append(@, [peer_id |-> idx.peer_id,
                                   peer_name |-> _peer_display_name(g.peer),
                                   message_id |-> idx.message_id,
                                   timestamp |-> idx.timestamp,
                                   text |-> msg.text,
                                   is_from_me |-> ~msg.incoming,
                                   sender_name |-> s.sender]),
                !.cache = g.cache]

ExportChat(tbl2, acc, idx, msg, s) ==
    ExportRecordOf(acc, idx, msg, s, _get_peer(tbl2, s.cache, idx.peer_id))

\* the loop body of get_all_messages for one row whose value parses to msg
ExportRow(tbl2, acc, idx, msg, since_timestamp) ==
    IF idx.err # "" THEN [acc EXCEPT !.exc = idx.err, !.val = <<>>]
    ELSE IF idx.timestamp < since_timestamp THEN acc
    ELSE IF ~msg.some THEN acc
    ELSE ExportChat(tbl2, acc, idx, msg, ExportSender(tbl2, acc.cache, msg, idx))

RECURSIVE ExportLoop(_, _, _, _)
ExportLoop(rows, tbl2, acc, since_timestamp) ==
    IF rows = <<>> \/ acc.exc # "" THEN acc
    ELSE ExportLoop(Tail(rows), tbl2,
                    ExportRow(tbl2, acc, _parse_message_key(Head(rows).key),
                              _parse_message_value(Head(rows).value), since_timestamp),
                    since_timestamp)

\* get_all_messages after _ensure_connection: [exc, val, cache]
get_all_messages(tbl7, tbl2, cache, since_timestamp) ==
    ExportLoop(OrderByKeyAsc(tbl7), tbl2, [exc |-> "", val |-> <<>>, cache |-> cache],
               since_timestamp)

-----------------------------------------------------------------------------
(* Encoders of the stored formats, used to draw well-formed inputs *)

\* a record of a tagged stream: short-string key, tag, payload
Field(key, vtype, payload) == <<Len(key)>> \o key \o <<vtype>> \o payload

StringField(key, text) == Field(key, String, PackS32LE(Len(text)) \o text)

Int64Field(key, n) == Field(key, Int64, PackS64LE(n))

Int32Field(key, n) == Field(key, Int32, PackS32LE(n))

\* a t2 value: key "_" -> Object(type hash, length, inner stream)
PeerBlob(inner) == Field(<<95>>, Object, Zeros(4) \o PackS32LE(Len(inner)) \o inner)

\* the 20-byte t7 key
MessageKey(peer_id, namespace, timestamp, message_id) ==
    PackS64BE(peer_id) \o PackS32BE(namespace) \o PackS32BE(timestamp)
        \o PackS32BE(message_id)

\* the bytes of the optional fields a flag byte announces, all zero
OptionalBytes(flags, fields) ==
    Concat([i \in 1..Len(fields) |->
               IF ~HasBit(flags, fields[i].flag) THEN <<>>
               ELSE IF fields[i].kind = "str" THEN PackS32LE(0)
               ELSE Zeros(fields[i].size)])

\* a forward-info block: the flag byte, then author_id, date and the fields
FwdBlock(info_flags) ==
    IF info_flags = 0 THEN <<0>>
    ELSE <<info_flags>> \o PackS64LE(9) \o PackS32LE(3) \o OptionalBytes(info_flags, FwdFields)

\* a regular message value (discriminator 0); author = 0 writes no author
MessageValue(data_flags, flags, info_flags, author, text) ==
    <<0>> \o Zeros(4) \o Zeros(4) \o <<data_flags>>
        \o OptionalBytes(data_flags, DataFields)
        \o <<flags, 0, 0, 0>> \o Zeros(4)
        \o FwdBlock(info_flags)
        \o (IF author = 0 THEN <<0>> ELSE <<1>> \o PackS64LE(author))
        \o PackS32LE(Len(text)) \o text

\* the payload of a tagged value as _read_value reads it back: an object is
\* its type hash (0), its int32 length and its data; a blob its length and
\* its bytes; an array its int32 count and its elements
EncodeObject(data) == Zeros(4) \o PackS32LE(Len(data)) \o data

EncodeBlob(bs) == PackS32LE(Len(bs)) \o bs

EncodeElement(vtype, x) ==
    CASE vtype = Int32Array -> PackS32LE(x)
      [] vtype = Int64Array -> PackS64LE(x)
      [] vtype = ObjectArray -> EncodeObject(x)
      [] vtype = ObjectDictionary -> EncodeObject(x[1]) \o EncodeObject(x[2])
      [] vtype \in {StringArray, BytesArray} -> EncodeBlob(x)

EncodeValue(vtype, v) ==
    CASE vtype = Int32 -> PackS32LE(v.v)
      [] vtype = Int64 -> PackS64LE(v.v)
      [] vtype = Bool -> IF v.v THEN <<1>> ELSE <<0>>
      [] vtype = Double -> v.v
      [] vtype \in {String, Bytes} -> EncodeBlob(v.v)
      [] vtype = Object -> EncodeObject(v.v)
      [] vtype = Nil -> <<>>
      [] OTHER -> PackS32LE(Len(v.v))
                      \o Concat([i \in 1..Len(v.v) |-> EncodeElement(vtype, v.v[i])])

\* the optional fields a flag byte announces, a text under each string field
FieldBytes(flags, fields, text) ==
    Concat([i \in 1..Len(fields) |->
               IF ~HasBit(flags, fields[i].flag) THEN <<>>
               ELSE IF fields[i].kind = "str" THEN EncodeBlob(text)
               ELSE Zeros(fields[i].size)])

\* a forward-info block for any flag byte: 0 stands alone, any other byte is
\* followed by author_id, date and the fields of its bits
FwdBytes(flag, author, date, text) ==
    IF flag = 0 THEN <<0>>
    ELSE <<flag>> \o PackS64LE(author) \o PackS32LE(date) \o FieldBytes(flag, FwdFields, text)

\* a regular message: the author id follows the author flag h only for h = 1
MessageBytes(data_flags, flags, fwd, h, author, text) ==
    <<0>> \o Zeros(4) \o Zeros(4) \o <<data_flags>>
        \o FieldBytes(data_flags, DataFields, <<>>)
        \o <<flags, 0, 0, 0>> \o Zeros(4)
        \o fwd
        \o <<h>> \o (IF h = 1 THEN PackS64LE(author) ELSE <<>>)
        \o EncodeBlob(text)

-----------------------------------------------------------------------------
(* The stores the specifications draw from *)

MaxLimit == 3
MaxRows == 3
MaxPaths == 3
MaxRuns == 3
MaxFields == 2
MaxField == 1
MaxText == 2

\* the limit of the specification's example: read_messages(X, 10)
ExampleLimit == 10

PeerX == 1
PeerY == PeerX + 1
PeerZ == PeerX + 6

Limits == 0..MaxLimit

ReadLimits == Limits \cup {ExampleLimit}

Paths == 1..MaxPaths

\* t2: X has a first and a last name, Y a title and a phone, Z a username
PeerTable ==
    { [key |-> PeerX, value |-> PeerBlob(StringField(<<102, 110>>, <<65, 108>>)
                                         \o StringField(<<108, 110>>, <<66>>))],
      [key |-> PeerY, value |-> PeerBlob(StringField(<<116>>, <<71>>)
                                         \o StringField(<<112>>, <<53, 53, 53>>))],
      [key |-> PeerZ, value |-> PeerBlob(StringField(<<117, 110>>, <<98, 111>>))] }

\* t7 rows: text records of X (one in namespace 1 with an older timestamp;
\* the second text of Y is U+00C9 and "B" in UTF-8),
\* an empty text, a value cut after the discriminator, a value with another
\* discriminator, and records of Y
RowPool ==
    << [key |-> MessageKey(PeerX, 0, 10, 1),
        value |-> MessageValue(0, Incoming, 0, 0, <<97, 98>>)],
       [key |-> MessageKey(PeerX, 0, 20, 2),
        value |-> MessageValue(GlobalTags, 0, 0, 0, <<65, 66>>)],
       [key |-> MessageKey(PeerX, 0, 30, 3),
        value |-> MessageValue(0, Incoming, SourceId, PeerZ, <<98>>)],
       [key |-> MessageKey(PeerY, 0, 15, 1),
        value |-> MessageValue(0, Incoming, 0, 0, <<97, 98>>)],
       [key |-> MessageKey(PeerY, 0, 25, 2),
        value |-> MessageValue(0, 0, 0, 0, <<195, 137, 66>>)],
       [key |-> MessageKey(PeerX, 1, 5, 4),
        value |-> MessageValue(0, 0, 0, 0, <<98, 97>>)],
       [key |-> MessageKey(PeerX, 0, 40, 5),
        value |-> MessageValue(0, Incoming, 0, 0, <<>>)],
       [key |-> MessageKey(PeerX, 0, 50, 6), value |-> <<0>>],
       [key |-> MessageKey(PeerY, 0, 35, 3),
        value |-> <<1>> \o Tail(MessageValue(0, Incoming, 0, 0, <<97, 98>>))] >>

Rows == {RowPool[i] : i \in 1..Len(RowPool)}

\* the table of the specification's example: 3 records of X and 2 of Y
ExampleTable == {RowPool[i] : i \in 1..5}

Tables == {t \in SUBSET Rows : Cardinality(t) <= MaxRows} \cup {ExampleTable}

PeerArgs == {PeerX, PeerY, PeerZ}

\* search texts: "b", "AB", "" and U+00C9
Queries == {<<98>>, <<65, 66>>, <<>>, <<201>>}

-----------------------------------------------------------------------------
(* The operations of one TelegramDB instance *)

Raised(exc) == [exc |-> exc, val |-> <<>>]

Returned(val) == [exc |-> "", val |-> val]

\* the pipeline counter is capped: a call that would start another run waits
CanOpen == conn \/ ~available \/ runs < MaxRuns

\* the instance fields and the disk after _ensure_connection returned e
Opened(e) ==
    /\ conn' = e.conn
    /\ plaintext_path' = e.path
    /\ disk' = e.disk
    /\ exported' = e.exported
    /\ filled' = e.filled
    /\ runs' = e.runs
    /\ met' = e.met
    /\ opens' = IF e.conn /\ ~conn THEN opens + 1 ELSE opens

\* a query: _ensure_connection, then the body b.  b is read only when the
\* connection was obtained
Query(op, args, e, b) ==
    /\ Opened(e)
    /\ peer_cache' = IF e.exc = "" THEN b.cache ELSE peer_cache
    /\ call' = [op |-> op, args |-> args]
    /\ ret' = IF e.exc # "" THEN Raised(e.exc)
              ELSE IF b.exc # "" THEN Raised(b.exc)
              ELSE Returned(b.val)
    /\ UNCHANGED <<available, env, t2, t7, input, pc, hooks, inst>>

ReadMessages(peer_id, limit) ==
    /\ CanOpen
    /\ \E o \in OpenOutcomes, p \in FreshPaths(Paths) :
          Query("read_messages", <<peer_id, limit>>, _ensure_connection(o, p),
                read_messages(t7, t2, peer_cache, peer_id, limit))

SearchMessages(query, limit) ==
    /\ CanOpen
    /\ \E o \in OpenOutcomes, p \in FreshPaths(Paths) :
          Query("search_messages", <<query, limit>>, _ensure_connection(o, p),
                search_messages(t7, t2, peer_cache, query, limit))

Stats ==
    /\ CanOpen
    /\ \E o \in OpenOutcomes, p \in FreshPaths(Paths) :
          Query("stats", <<>>, _ensure_connection(o, p),
                [exc |-> "", val |-> stats(t7, t2), cache |-> peer_cache])

\* _get_peer called on the instance: a cached peer is returned before
\* _ensure_connection is reached
GetPeer(peer_id) ==
    IF peer_id \in DOMAIN peer_cache
    THEN /\ call' = [op |-> "_get_peer", args |-> <<peer_id>>]
         /\ ret' = Returned(peer_cache[peer_id])
         /\ met' = ""
         /\ UNCHANGED <<available, conn, plaintext_path, peer_cache, disk,
                        exported, filled, runs, opens, env, t2, t7, input, pc, hooks, inst>>
    ELSE /\ CanOpen
         /\ \E o \in OpenOutcomes, p \in FreshPaths(Paths) :
               LET g == _get_peer(t2, peer_cache, peer_id)
               IN  Query("_get_peer", <<peer_id>>, _ensure_connection(o, p),
                         [exc |-> "", val |-> g.peer, cache |-> g.cache])

\* a close() without the "if self._conn" guard: None has no close()
CloseUnguarded(c, path, dsk) ==
    IF ~c THEN [exc |-> "AttributeError", conn |-> c, path |-> path, disk |-> dsk]
    ELSE [exc |-> "", conn |-> FALSE,
          path |-> IF path # NoPath /\ path \in dsk THEN NoPath ELSE path,
          disk |-> IF path # NoPath /\ path \in dsk THEN dsk \ {path} ELSE dsk]

\* close() on an instance with connection c and recorded path over the disk
\* dsk: the connection, then the file when the recorded path exists
close(c, path, dsk) ==
    [exc |-> "", conn |-> FALSE,
     path |-> IF path # NoPath /\ path \in dsk THEN NoPath ELSE path,
     disk |-> IF path # NoPath /\ path \in dsk THEN dsk \ {path} ELSE dsk]

\* the instance and the disk after close() returned r
Released(r) ==
    /\ conn' = r.conn
    /\ plaintext_path' = r.path
    /\ disk' = r.disk
    /\ filled' = filled \cap r.disk
    /\ met' = ""

Close ==
    /\ Released(close(conn, plaintext_path, disk))
    /\ call' = [op |-> "close", args |-> <<>>]
    /\ ret' = IF close(conn, plaintext_path, disk).exc = "" THEN Returned(<<>>)
              ELSE Raised(close(conn, plaintext_path, disk).exc)
    /\ UNCHANGED <<available, peer_cache, exported, runs, opens, env, t2, t7, input,
                   pc, hooks, inst>>

\* the state after TelegramDB() over the given stores
Constructed(avail, outcomes, tbl2, tbl7) ==
    /\ available = avail
    /\ conn = FALSE
    /\ plaintext_path = NoPath
    /\ peer_cache = <<>>
    /\ disk = {}
    /\ exported = {}
    /\ filled = {}
    /\ runs = 0
    /\ opens = 0
    /\ env = outcomes
    /\ t2 = tbl2
    /\ t7 = tbl7
    /\ call = [op |-> "__init__", args |-> <<>>]
    /\ ret = Returned(<<>>)
    /\ met = ""

\* one instance used by a caller the model does not follow: no routine, no
\* atexit callback, no instance beside it
Alone ==
    /\ pc = [fn |-> "", at |-> "run"]
    /\ hooks = <<>>
    /\ inst = <<>>

\* the arguments the life-cycle specification calls the queries with
DbLimit == MaxLimit

Next ==
    \/ \E p \in {PeerX, PeerZ} : ReadMessages(p, DbLimit)
    \/ SearchMessages(<<98>>, DbLimit)
    \/ Stats
    \/ \E p \in {PeerX, PeerY} : GetPeer(p)
    \/ Close

\* the life of one instance: any source files, any outcome of each open
Init ==
    /\ \E avail \in BOOLEAN : Constructed(avail, Outcomes, PeerTable, ExampleTable)
    /\ input = <<>>
    /\ Alone

Spec == Init /\ [][Next]_vars

\* read_messages over every message table, with a working key and export tool
InitTable ==
    /\ \E tbl7 \in Tables : Constructed(TRUE, {"ok"}, PeerTable, tbl7)
    /\ input = <<>>
    /\ Alone

NextRead == \E p \in PeerArgs, l \in ReadLimits : ReadMessages(p, l)

SpecRead == InitTable /\ [][NextRead]_vars

\* search_messages over every message table
NextSearch == \E q \in Queries, l \in Limits : SearchMessages(q, l)

SpecSearch == InitTable /\ [][NextSearch]_vars

-----------------------------------------------------------------------------
(* Instances that open the store side by side *)

MaxInst == 2

\* the instances share the disk and nothing else: a step of one of them
\* leaves the fields of the single instance alone
Beside ==
    UNCHANGED <<available, conn, plaintext_path, peer_cache, exported, runs, opens,
                env, t2, t7, call, ret, input, met, pc, hooks>>

\* an instance record: at is the statement the instance has reached, path is
\* self._plaintext_path, tmp and rc are plaintext_path and result.returncode
\* of the _decrypt_database call that is running
Idle(r) == r.at \in {"new", "failed", "closed"}

\* _ensure_connection of instance i with self._conn None, up to the return of
\* tempfile.mktemp(): a name no file has at the time of the call; the names
\* come from a random sequence, one per process
Mktemp(i, p) ==
    /\ Idle(inst[i])
    /\ available
    /\ p \notin disk
    /\ inst' = [inst EXCEPT ![i] = [@ EXCEPT !.at = "named", !.tmp = p, !.rc = 0]]
    /\ UNCHANGED <<disk, filled>>
    /\ Beside

\* what the export tool can do: exit 0 with the file written, exit non-zero
\* without or with an output file, exit 0 with no file or a zero-length file
ToolOutcomes ==
    {"ok", "export_failed", "export_failed_file", "export_missing", "export_empty"}

\* subprocess.run(["sqlcipher", ...]) of instance i returned: ATTACH DATABASE
\* created the file of the chosen name, or opened the file that is there;
\* the exit status is kept in result.returncode
RunTool(i, o) ==
    /\ inst[i].at = "named"
    /\ o \in env
    /\ disk' = IF o \in {"ok", "export_failed_file", "export_empty"}
               THEN disk \cup {inst[i].tmp} ELSE disk
    /\ filled' = IF o \in {"ok", "export_failed_file"}
                 THEN filled \cup {inst[i].tmp} ELSE filled
    /\ inst' = [inst EXCEPT ![i] = [@ EXCEPT !.at = "ran",
                                             !.rc = IF o \in {"export_failed",
                                                              "export_failed_file"}
                                                    THEN 1 ELSE 0]]
    /\ Beside

\* the checks of _decrypt_database after the tool returned, on the disk as it
\* is now, and self._plaintext_path = ...: a RuntimeError leaves
\* self._plaintext_path as it was
Export(i) ==
    /\ inst[i].at = "ran"
    /\ inst' = [inst EXCEPT ![i] =
                   IF inst[i].rc # 0 \/ inst[i].tmp \notin disk
                          \/ inst[i].tmp \notin filled
                   THEN [@ EXCEPT !.at = "failed", !.tmp = NoPath]
                   ELSE [@ EXCEPT !.at = "exported", !.path = inst[i].tmp,
                                  !.tmp = NoPath]]
    /\ UNCHANGED <<disk, filled>>
    /\ Beside

\* self._conn = sqlite3.connect(str(self._plaintext_path)): a file that is
\* not there is created with no data
Connect(i) ==
    /\ inst[i].at = "exported"
    /\ inst' = [inst EXCEPT ![i].at = "open"]
    /\ disk' = disk \cup {inst[i].path}
    /\ UNCHANGED <<filled>>
    /\ Beside

\* close() of instance i, with or without a connection: the file at the
\* recorded path is unlinked when it exists
CloseInstance(i) ==
    /\ Idle(inst[i]) \/ inst[i].at = "open"
    /\ disk' = close(inst[i].at = "open", inst[i].path, disk).disk
    /\ filled' = filled \cap close(inst[i].at = "open", inst[i].path, disk).disk
    /\ inst' = [inst EXCEPT ![i] =
                   [@ EXCEPT !.at = "closed",
                             !.path = close(inst[i].at = "open", inst[i].path, disk).path]]
    /\ Beside

InitInstances ==
    /\ Constructed(TRUE, ToolOutcomes, {}, {})
    /\ input = <<>>
    /\ pc = [fn |-> "", at |-> "run"]
    /\ hooks = <<>>
    /\ inst = [i \in 1..MaxInst |->
                  [at |-> "new", path |-> NoPath, tmp |-> NoPath, rc |-> 0]]

NextInstances ==
    \/ \E i \in 1..MaxInst, p \in Paths : Mktemp(i, p)
    \/ \E i \in 1..MaxInst, o \in ToolOutcomes : RunTool(i, o)
    \/ \E i \in 1..MaxInst : Export(i)
    \/ \E i \in 1..MaxInst : Connect(i)
    \/ \E i \in 1..MaxInst : CloseInstance(i)

SpecInstances == InitInstances /\ [][NextInstances]_vars

-----------------------------------------------------------------------------
(* The processes that own an instance: backends and telegram_send *)

Routines == {"backends", "_extract_auth_keys", "_resolve_entity_hint"}

\* the statement a routine starts with once its TelegramDB() exists
Entry(fn) ==
    CASE fn = "backends" -> "register"
      [] fn = "_extract_auth_keys" -> "_ensure_connection"
      [] fn = "_resolve_entity_hint" -> "_get_peer"

At(fn, at) == pc.fn = fn /\ pc.at = at

\* a statement that calls a method of the instance: _ensure_connection
\* (outcome e), then the body b = [exc, val, cache] over the store: an
\* exception leaves the routine, with the peers cached before it was raised
Statement(op, args, e, b, next) ==
    /\ Opened(e)
    /\ call' = [op |-> op, args |-> args]
    /\ ret' = IF e.exc # "" THEN Raised(e.exc)
              ELSE IF b.exc # "" THEN Raised(b.exc)
              ELSE Returned(b.val)
    /\ peer_cache' = IF e.exc = "" THEN b.cache ELSE peer_cache
    /\ pc' = [pc EXCEPT !.at = IF e.exc # "" \/ b.exc # "" THEN "raise" ELSE next]
    /\ UNCHANGED <<available, env, t2, t7, input, hooks, inst>>

\* the body of a method one of whose sqlite3 statements raised when the peer
\* cache was c
Failing(c) == [exc |-> "sqlite3.Error", val |-> <<>>, cache |-> c]

\* a method that returns before it reaches _ensure_connection
Untouched ==
    [exc |-> "", conn |-> conn, path |-> plaintext_path, disk |-> disk,
     exported |-> exported, filled |-> filled, runs |-> runs, met |-> ""]

\* the body of a statement that reads nothing through the peer cache
NoBody == [exc |-> "", val |-> <<>>, cache |-> peer_cache]

\* backends._get_telegram_db: atexit.register(_telegram_db.close)
GetTelegramDb ==
    /\ At("backends", "register")
    /\ hooks' = Append(hooks, "close")
    /\ pc' = [pc EXCEPT !.at = "query"]
    /\ call' = [op |-> "_get_telegram_db", args |-> <<>>]
    /\ ret' = Returned(<<>>)
    /\ met' = ""
    /\ UNCHANGED <<available, conn, plaintext_path, peer_cache, disk, exported, filled,
                   runs, opens, env, t2, t7, input, inst>>

\* the calls the backends functions make on the singleton: recent_chats
\* (119), find_chats (152), resolve_identifier (180) of "123456", "bo" and
\* "12", read_messages (183),
\* search_messages (241), stats (272), _get_peer (365)
BackendCalls ==
    {[op |-> "recent_chats", args |-> <<l>>] : l \in {0, 1, DbLimit}}
        \cup {[op |-> "find_chats", args |-> <<q>>] : q \in {<<97, 108>>, <<>>}}
        \cup {[op |-> "resolve_identifier", args |-> <<x>>] :
                 x \in {<<49, 50, 51, 52, 53, 54>>, <<98, 111>>, <<49, 50>>}}
        \cup {[op |-> "read_messages", args |-> <<PeerX, DbLimit>>],
              [op |-> "search_messages", args |-> <<<<98>>, DbLimit>>],
              [op |-> "stats", args |-> <<>>]}
        \cup {[op |-> "_get_peer", args |-> <<p>>] : p \in PeerArgs}

\* the method q.op of the instance on q.args after _ensure_connection
MethodBody(q) ==
    CASE q.op = "recent_chats" -> recent_chats(t7, t2, peer_cache, q.args[1])
      [] q.op = "find_chats" -> find_chats(t2, peer_cache, q.args[1])
      [] q.op = "resolve_identifier" -> resolve_identifier(t2, peer_cache, q.args[1])
      [] q.op = "read_messages" ->
            read_messages(t7, t2, peer_cache, q.args[1], q.args[2])
      [] q.op = "search_messages" ->
            search_messages(t7, t2, peer_cache, q.args[1], q.args[2])
      [] q.op = "stats" -> [exc |-> "", val |-> stats(t7, t2), cache |-> peer_cache]
      [] q.op = "_get_peer" ->
            [exc |-> "", val |-> _get_peer(t2, peer_cache, q.args[1]).peer,
             cache |-> _get_peer(t2, peer_cache, q.args[1]).cache]

\* the method reaches _ensure_connection: resolve_identifier returns a direct
\* peer id, and _get_peer a cached peer, before it
ReachesStore(q) ==
    /\ q.op = "resolve_identifier" => NeedsStore(q.args[1])
    /\ q.op = "_get_peer" => q.args[1] \notin DOMAIN peer_cache

\* the peer cache after the first n peers of the loop of recent_chats
RecentCache(latest, limit, n) ==
    RecentLoop(SubSeq(Slice(SortedPeers(latest.seen, latest.ts), limit), 1, n),
               latest.ts, t2, NoBody).cache

\* the peer cache at each SELECT of _get_peer in recent_chats: _get_peer reads
\* the store exactly when the cache gains a key
RecentReads(latest, limit) ==
    IF latest.exc # "" THEN {}
    ELSE {RecentCache(latest, limit, n - 1) :
             n \in {m \in 1..Len(Slice(SortedPeers(latest.seen, latest.ts), limit)) :
                       RecentCache(latest, limit, m)
                           # RecentCache(latest, limit, m - 1)}}

\* the peer cache after the first n fetched rows of read_messages
ReadCache(rows, n) == ReadLoop(SubSeq(rows, 1, n), t2, NoBody).cache

\* the peer cache at each SELECT of _get_peer in read_messages
ReadReads(rows) ==
    {ReadCache(rows, n - 1) :
        n \in {m \in 1..Len(rows) : ReadCache(rows, m) # ReadCache(rows, m - 1)}}

\* the peer cache after the first n fetched rows of search_messages
SearchCache(rows, query, limit, n) ==
    SearchLoop(SubSeq(rows, 1, n), t2, NoBody, Lower(query), limit).cache

\* the peer cache of search_messages in row n between
\* peer = self._get_peer(idx["peer_id"]) and the _get_peer of the author
SearchBetween(rows, query, limit, n) ==
    _get_peer(t2, SearchCache(rows, query, limit, n - 1),
              _parse_message_key(rows[n].key).peer_id).cache

\* the peer cache at each SELECT of _get_peer in search_messages: a row reads
\* the store for the chat, for the author, or for both
SearchReads(rows, query, limit) ==
    {SearchCache(rows, query, limit, n - 1) :
        n \in {m \in 1..Len(rows) : SearchCache(rows, query, limit, m)
                                        # SearchCache(rows, query, limit, m - 1)}}
    \cup {SearchBetween(rows, query, limit, n) :
             n \in {m \in 1..Len(rows) :
                       /\ SearchCache(rows, query, limit, m)
                              # SearchCache(rows, query, limit, m - 1)
                       /\ SearchBetween(rows, query, limit, m)
                              # SearchCache(rows, query, limit, m)}}

\* the peer cache at the SELECT of find_chats in resolve_identifier, when
\* find_peer_by_phone ran before it and found nothing
ResolveReads(stripped, ph) ==
    IF (\E i \in 1..Len(stripped) : IsDecimal(stripped[i]))
          /\ ph.exc = "" /\ ph.val.t = "None"
    THEN {ph.cache} ELSE {}

\* the peer caches the instance can hold when a sqlite3 statement of the
\* method q.op raises: the one of the call at the first statement, and the
\* one reached at each later statement
FailCaches(q) ==
    {peer_cache} \cup
    CASE q.op = "recent_chats" ->
            RecentReads(PeerLatest(OrderByKeyAsc(t7),
                                   [exc |-> "", ts |-> <<>>, seen |-> <<>>]),
                        q.args[1])
      [] q.op = "read_messages" ->
            ReadReads(SqlLimit(OrderByKeyDesc({r \in t7 : Substr8(r.key)
                                                            = PackS64BE(q.args[1])}),
                               q.args[2]))
      [] q.op = "search_messages" ->
            SearchReads(OrderByKeyDesc(t7), q.args[1], q.args[2])
      [] q.op = "resolve_identifier" ->
            ResolveReads(Strip(q.args[1]),
                         find_peer_by_phone(t2, peer_cache, Strip(q.args[1])))
      [] OTHER -> {}

\* what a statement on the singleton does after _ensure_connection: the
\* method returns or raises, or one of its sqlite3 statements raises
BackendBodies(q) == {MethodBody(q)} \cup {Failing(c) : c \in FailCaches(q)}

\* a statement of a backends function that calls a method of the singleton
BackendQuery(q) ==
    /\ At("backends", "query")
    /\ IF ReachesStore(q)
       THEN /\ CanOpen
            /\ \E o \in OpenOutcomes, p \in FreshPaths(Paths), b \in BackendBodies(q) :
                  Statement(q.op, q.args, _ensure_connection(o, p), b, "query")
       ELSE Statement(q.op, q.args, Untouched, MethodBody(q), "query")

\* the command of the backends process is done
BackendReturn ==
    /\ At("backends", "query")
    /\ pc' = [pc EXCEPT !.at = "return"]
    /\ UNCHANGED <<available, conn, plaintext_path, peer_cache, disk, exported, filled,
                   runs, opens, env, t2, t7, call, ret, input, met, hooks, inst>>

\* _extract_auth_keys: tg._ensure_connection()
ExtractEnsure ==
    /\ At("_extract_auth_keys", "_ensure_connection")
    /\ CanOpen
    /\ \E o \in OpenOutcomes, p \in FreshPaths(Paths) :
          Statement("_ensure_connection", <<>>, _ensure_connection(o, p), NoBody,
                    "execute")

\* _extract_auth_keys: conn.execute("SELECT value FROM t1 ...").fetchone()
ExtractExecute ==
    /\ At("_extract_auth_keys", "execute")
    /\ \E b \in {NoBody, Failing(peer_cache)} :
          Statement("execute", <<>>, _ensure_connection("ok", NoPath), b, "close")

\* _resolve_entity_hint: peer = tdb._get_peer(peer_id)
HintGetPeer(peer_id) ==
    /\ At("_resolve_entity_hint", "_get_peer")
    /\ CanOpen
    /\ \E o \in OpenOutcomes, p \in FreshPaths(Paths),
          b \in {[exc |-> "", val |-> _get_peer(t2, peer_cache, peer_id).peer,
                  cache |-> _get_peer(t2, peer_cache, peer_id).cache],
                 Failing(peer_cache)} :
          Statement("_get_peer", <<peer_id>>, _ensure_connection(o, p), b, "close")

\* tg.close() / tdb.close() of the telegram_send routines
RoutineClose ==
    /\ pc.fn \in {"_extract_auth_keys", "_resolve_entity_hint"} /\ pc.at = "close"
    /\ Released(close(conn, plaintext_path, disk))
    /\ pc' = [pc EXCEPT !.at = "return"]
    /\ call' = [op |-> "close", args |-> <<>>]
    /\ ret' = Returned(<<>>)
    /\ UNCHANGED <<available, peer_cache, exported, runs, opens, env, t2, t7, input,
                   hooks, inst>>

\* the interpreter ends after the routine returned or raised (SystemExit
\* included): the atexit callbacks run
Exit ==
    /\ pc.at \in {"return", "raise"}
    /\ IF hooks # <<>>
       THEN Released(close(conn, plaintext_path, disk))
       ELSE UNCHANGED <<conn, plaintext_path, disk, filled, met>>
    /\ pc' = [pc EXCEPT !.at = "ended"]
    /\ UNCHANGED <<available, peer_cache, exported, runs, opens, env, t2, t7, call, ret,
                   input, hooks, inst>>

InitProcess ==
    /\ \E avail \in BOOLEAN : Constructed(avail, Outcomes, PeerTable, ExampleTable)
    /\ input = <<>>
    /\ \E fn \in Routines : pc = [fn |-> fn, at |-> Entry(fn)]
    /\ hooks = <<>>
    /\ inst = <<>>

NextProcess ==
    \/ GetTelegramDb
    \/ \E q \in BackendCalls : BackendQuery(q)
    \/ BackendReturn
    \/ ExtractEnsure
    \/ ExtractExecute
    \/ \E p \in PeerArgs : HintGetPeer(p)
    \/ RoutineClose
    \/ Exit

SpecProcess == InitProcess /\ [][NextProcess]_vars

-----------------------------------------------------------------------------
(* The lookups over every peer table *)

MaxPeers == 2

PeerW == PeerX + 2
PeerV == PeerX + 3
PeerU == PeerX + 4

\* t2 rows besides PeerTable: W has the phone "+1 (555) 123-4567", V the
\* username "bo2" and no phone, U a value _parse_peer gives None for; Y's
\* phone is "555"
LookupPool ==
    PeerTable \cup
    { [key |-> PeerW,
       value |-> PeerBlob(StringField(<<102, 110>>, <<67, 121>>)
                          \o StringField(<<112>>, <<43, 49, 32, 40, 53, 53, 53, 41, 32,
                                                    49, 50, 51, 45, 52, 53, 54, 55>>))],
      [key |-> PeerV, value |-> PeerBlob(StringField(<<117, 110>>, <<98, 111, 50>>))],
      [key |-> PeerU, value |-> <<0, 1, 2>>] }

PeerTables == {t \in SUBSET LookupPool : Cardinality(t) <= MaxPeers}

\* "123456", " 123456 ", "100001", "100000", "555", "bo2", "bo", "al", "zz",
\* the superscript two, and 1234567 in Devanagari digits
Identifiers ==
    { <<49, 50, 51, 52, 53, 54>>, <<32, 49, 50, 51, 52, 53, 54, 32>>,
      <<49, 48, 48, 48, 48, 49>>, <<49, 48, 48, 48, 48, 48>>, <<53, 53, 53>>,
      <<98, 111, 50>>, <<98, 111>>, <<97, 108>>, <<122, 122>>, <<178>>,
      <<2407, 2408, 2409, 2410, 2411, 2412, 2413>> }

\* "5551234567", "555", "al", "BO", "zz", ""
ChatQueries ==
    { <<53, 53, 53, 49, 50, 51, 52, 53, 54, 55>>, <<53, 53, 53>>, <<97, 108>>,
      <<66, 79>>, <<122, 122>>, <<>> }

RecentChats(limit) ==
    /\ CanOpen
    /\ \E o \in OpenOutcomes, p \in FreshPaths(Paths) :
          Query("recent_chats", <<limit>>, _ensure_connection(o, p),
                recent_chats(t7, t2, peer_cache, limit))

FindChats(query) ==
    /\ CanOpen
    /\ \E o \in OpenOutcomes, p \in FreshPaths(Paths) :
          Query("find_chats", <<query>>, _ensure_connection(o, p),
                find_chats(t2, peer_cache, query))

FindPeerByPhone(phone_digits) ==
    /\ CanOpen
    /\ \E o \in OpenOutcomes, p \in FreshPaths(Paths) :
          Query("find_peer_by_phone", <<phone_digits>>, _ensure_connection(o, p),
                find_peer_by_phone(t2, peer_cache, phone_digits))

GetAllMessages(since_timestamp) ==
    /\ CanOpen
    /\ \E o \in OpenOutcomes, p \in FreshPaths(Paths) :
          Query("get_all_messages", <<since_timestamp>>, _ensure_connection(o, p),
                get_all_messages(t7, t2, peer_cache, since_timestamp))

\* resolve_identifier: a direct peer id, or the ValueError of int(), ends the
\* call before find_peer_by_phone or find_chats reaches _ensure_connection
ResolveIdentifier(identifier) ==
    IF NeedsStore(identifier)
    THEN /\ CanOpen
         /\ \E o \in OpenOutcomes, p \in FreshPaths(Paths) :
               Query("resolve_identifier", <<identifier>>, _ensure_connection(o, p),
                     resolve_identifier(t2, peer_cache, identifier))
    ELSE /\ call' = [op |-> "resolve_identifier", args |-> <<identifier>>]
         /\ ret' = IF resolve_identifier(t2, peer_cache, identifier).exc # ""
                   THEN Raised(resolve_identifier(t2, peer_cache, identifier).exc)
                   ELSE Returned(resolve_identifier(t2, peer_cache, identifier).val)
         /\ met' = ""
         /\ UNCHANGED <<available, conn, plaintext_path, peer_cache, disk,
                        exported, filled, runs, opens, env, t2, t7, input, pc, hooks, inst>>

\* every peer table, with the source files there or not, a working key and
\* export tool; the instance stays open once it is
InitLookup ==
    /\ \E avail \in BOOLEAN, tbl2 \in PeerTables :
          Constructed(avail, {"ok"}, tbl2, ExampleTable)
    /\ input = <<>>
    /\ Alone

NextLookup ==
    \/ \E id \in Identifiers : ResolveIdentifier(id)
    \/ \E q \in ChatQueries : FindChats(q)
    \/ \E d \in {<<53, 53, 53>>, <<97, 108>>} : FindPeerByPhone(d)
    \/ \E l \in {1, DbLimit} : RecentChats(l)
    \/ GetAllMessages(0)
    \/ ReadMessages(PeerX, DbLimit)
    \/ SearchMessages(<<98>>, DbLimit)
    \/ \E p \in {PeerX, PeerU} : GetPeer(p)

SpecLookup == InitLookup /\ [][NextLookup]_vars

-----------------------------------------------------------------------------
(* The bulk scans over message tables whose keys tie or are short *)

\* rows beside RowPool: a record of Z as recent as the newest text of X, a
\* row whose key lost its last byte, and a row with a 4-byte key
ShortKey == SubSeq(MessageKey(PeerX, 0, 60, 7), 1, 19)

KeyPool ==
    Rows \cup
    { [key |-> MessageKey(PeerZ, 0, 30, 1),
       value |-> MessageValue(0, 0, 0, 0, <<98>>)],
      [key |-> ShortKey, value |-> MessageValue(0, Incoming, 0, 0, <<98>>)],
      [key |-> <<0, 0, 0, 1>>, value |-> <<0>>] }

KeyTables == {t \in SUBSET KeyPool : Cardinality(t) <= MaxRows}

InitScan ==
    /\ \E tbl7 \in KeyTables : Constructed(TRUE, {"ok"}, PeerTable, tbl7)
    /\ input = <<>>
    /\ Alone

NextScan ==
    \/ \E l \in Limits : RecentChats(l)
    \/ ReadMessages(PeerX, DbLimit)
    \/ SearchMessages(<<98>>, DbLimit)
    \/ GetAllMessages(0)

SpecScan == InitScan /\ [][NextScan]_vars

-----------------------------------------------------------------------------
(* The parsers applied to drawn buffers, with no instance in use *)

\* a function of the module applied to the drawn input
Applied(op, args, val) ==
    /\ call' = [op |-> op, args |-> args]
    /\ ret' = Returned(val)
    /\ UNCHANGED <<available, conn, plaintext_path, peer_cache, disk, exported, filled,
                   runs, opens, env, t2, t7, input, met, pc, hooks, inst>>

\* no store: the state the parser specifications start an input from
Drawn(inp) == Constructed(FALSE, {}, {}, {}) /\ input = inp /\ Alone

\* tagged streams of up to MaxFields records over the keys "k" and "j", with
\* String, Int64 and Int32 values: keys repeat, with the same or another tag
StreamKeys == {<<107>>, <<106>>}

FieldPool ==
    {StringField(k, t) : k \in StreamKeys, t \in {<<97>>, <<98>>}}
        \cup {Int64Field(k, n) : k \in StreamKeys, n \in {1, 2}}
        \cup {Int32Field(k, 1) : k \in StreamKeys}

Streams == UNION {[1..n -> FieldPool] : n \in 0..MaxFields}

DecodeAllFields == Applied("decode_all_fields", <<>>, decode_all_fields(input))

GetString(k) == Applied("get_string", <<k>>, get_string(input, k))

GetInt64(k) == Applied("get_int64", <<k>>, get_int64(input, k))

InitStream == \E fs \in Streams : Drawn(Concat(fs))

NextStream ==
    \/ DecodeAllFields
    \/ \E k \in StreamKeys : GetString(k)
    \/ \E k \in StreamKeys : GetInt64(k)

SpecStream == InitStream /\ [][NextStream]_vars

\* pairs of 20-byte message keys whose fields include negative values, zero
\* and values of more than one byte
KeyVals == (-1..MaxField) \cup {256}

\* the key of the specification's example: 42, 0, 1700000000, 7
ExampleKey == [peer_id |-> 42, namespace |-> 0, timestamp |-> 1700000000,
               message_id |-> 7]

KeyTuples == [peer_id : KeyVals, namespace : {0, 1}, timestamp : KeyVals,
              message_id : {1, 2}] \cup {ExampleKey}

EncodeKey(f) == MessageKey(f.peer_id, f.namespace, f.timestamp, f.message_id)

\* _parse_message_key on both keys of the input
ParseMessageKeys ==
    Applied("_parse_message_key", <<>>,
            <<_parse_message_key(input[1]), _parse_message_key(input[2])>>)

\* ORDER BY key DESC over the two keys of the input
OrderKeys ==
    Applied("ORDER BY key DESC", <<>>,
            OrderByKeyDesc({[key |-> input[1]], [key |-> input[2]]}))

InitKey == \E a, b \in KeyTuples : Drawn(<<EncodeKey(a), EncodeKey(b)>>)

NextKey == ParseMessageKeys \/ OrderKeys

SpecKey == InitKey /\ [][NextKey]_vars

\* message values with texts of up to MaxText characters, cut at every length
Texts == {[i \in 1..n |-> 97] : n \in 0..MaxText}

ValuePool ==
    {MessageValue(df, fl, inf, au, t) :
        df \in {0, GlobalTags}, fl \in {0, Incoming}, inf \in {0, SourceId},
        au \in {0, PeerZ}, t \in Texts}

\* whole is an encoded message value, buf its first n bytes
Buffers ==
    UNION {{[whole |-> w, buf |-> SubSeq(w, 1, n)] : n \in 0..Len(w)} : w \in ValuePool}

ParseMessageValue ==
    Applied("_parse_message_value", <<>>, _parse_message_value(input.buf))

InitValue == \E b \in Buffers : Drawn(b)

NextValue == ParseMessageValue

SpecValue == InitValue /\ [][NextValue]_vars

\* the values drawn for a tag: numbers of either sign and of more than one
\* byte, empty and non-empty texts, blobs and lists
TagValues(vtype) ==
    CASE vtype \in {Int32, Int64} -> {PyInt(n) : n \in {0, 1, -1, 256}}
      [] vtype = Bool -> {PyBool(TRUE), PyBool(FALSE)}
      [] vtype = Double -> {PyFloat(Zeros(8)), PyFloat(<<0, 0, 0, 0, 0, 0, 240, 63>>)}
      [] vtype = String -> {PyStr(t) : t \in Texts}
      [] vtype \in {Object, Bytes} -> {PyBytes(b) : b \in {<<>>, <<7>>, <<0, 255>>}}
      [] vtype = Nil -> {PyNone}
      [] vtype \in {Int32Array, Int64Array} -> {PyList(xs) : xs \in {<<>>, <<1>>, <<1, -1>>}}
      [] vtype = ObjectDictionary ->
            {PyList(xs) : xs \in {<<>>, << <<<<1>>, <<2>>>> >>}}
      [] vtype = StringArray ->
            {PyList(xs) : xs \in {<<>>, <<<<97>>>>, <<<<97>>, <<>>>>}}
      [] vtype \in {ObjectArray, BytesArray} ->
            {PyList(xs) : xs \in {<<>>, <<<<7>>>>, <<<<>>, <<7>>>>}}

ValueTypes == Int32..BytesArray

\* the encodings of the drawn values: buf is the payload after the tag byte
Encodings ==
    UNION {{[vtype |-> t, encoded |-> TRUE, value |-> v, buf |-> EncodeValue(t, v)] :
               v \in TagValues(t)} : t \in ValueTypes}

\* other payloads: an encoding cut short, and an array or a blob whose count
\* or length prefix is negative or larger than the bytes that follow
Prefixes == {PackS32LE(-1), PackS32LE(MaxFields + 3)}

Payloads ==
    UNION {{[vtype |-> e.vtype, encoded |-> FALSE, value |-> PyNone,
             buf |-> SubSeq(e.buf, 1, n)] : n \in 0..(Len(e.buf) - 1)} : e \in Encodings}
        \cup {[vtype |-> t, encoded |-> FALSE, value |-> PyNone, buf |-> c \o rest] :
                 t \in ValueTypes \ {Int32, Int64, Bool, Double, Nil, Object},
                 c \in Prefixes,
                 rest \in {<<>>, <<1, 0, 0, 0, 97>>, Zeros(9)}}

\* what _read_value leaves: the exception, the value, the bytes consumed
\* after the tag byte
ReadOutcome(r) ==
    [exc |-> r.err, v |-> IF Failed(r) THEN PyNone ELSE r.v, pos |-> r.pos - 1]

SkipOutcome(r) == [exc |-> r.err, pos |-> r.pos]

ReadValue ==
    Applied("_read_value", <<>>,
            ReadOutcome(_read_value(Reader(<<input.vtype>> \o input.buf, "<"))))

SkipValue ==
    Applied("_skip_value", <<input.vtype>>,
            SkipOutcome(_skip_value(Reader(input.buf, "<"), input.vtype)))

InitTag == \E inp \in Encodings \cup Payloads : Drawn(inp)

NextTag == ReadValue \/ SkipValue

SpecTag == InitTag /\ [][NextTag]_vars

\* records of a stream under the keys "k" and "j": a text, two numbers, a
\* blob and an array, with the value each record encodes
CutValues ==
    {[vtype |-> String, val |-> PyStr(<<97, 98>>)], [vtype |-> Int64, val |-> PyInt(1)],
     [vtype |-> Int32, val |-> PyInt(-1)], [vtype |-> Bytes, val |-> PyBytes(<<7>>)],
     [vtype |-> Int32Array, val |-> PyList(<<1, 2>>)]}

CutFields ==
    {[key |-> k, val |-> c.val, bytes |-> Field(k, c.vtype, EncodeValue(c.vtype, c.val))] :
        k \in StreamKeys, c \in CutValues}

CutStreams == UNION {[1..n -> CutFields] : n \in 0..MaxFields}

StreamBytes(fs) == Concat([i \in 1..Len(fs) |-> fs[i].bytes])

\* a record under key "k" whose tag byte names no type, followed by four bytes
BadRecord == <<1, 107, BytesArray + 1, 1, 0, 0, 0>>

\* a stream cut at every length, and a stream continued by the bad record
CutBuffers ==
    UNION {{[fields |-> fs, buf |-> SubSeq(StreamBytes(fs), 1, n)] :
               n \in 0..Len(StreamBytes(fs))} : fs \in CutStreams}
        \cup {[fields |-> fs, buf |-> StreamBytes(fs) \o BadRecord] : fs \in CutStreams}

DecodeCut == Applied("decode_all_fields", <<>>, decode_all_fields(input.buf))

InitCut == \E b \in CutBuffers : Drawn(b)

NextCut == DecodeCut

SpecCut == InitCut /\ [][NextCut]_vars

\* t2 values: peers with a root object, alone or after a record of any tag,
\* streams without one (another key, the key "_" under another tag, an
\* unknown tag, a negative count before the root), values cut short, and
\* values of fewer than 8 bytes
RootBlob == PeerBlob(StringField(<<102, 110>>, <<65, 108>>))

PeerBlobs ==
    {RootBlob,
     Int32Field(<<107>>, 1) \o RootBlob,
     StringField(<<107>>, <<97, 98, 99>>),
     StringField(<<95>>, <<97, 98, 99>>),
     Int64Field(<<107>>, 1) \o Int32Field(<<106>>, 1),
     BadRecord \o RootBlob,
     Field(<<107>>, Int32Array, PackS32LE(-1)) \o RootBlob,
     Field(<<107>>, ObjectArray, PackS32LE(MaxFields + 3)) \o RootBlob,
     <<1, 95, Object>>, Zeros(8)}
        \cup {SubSeq(RootBlob, 1, n) : n \in 0..Len(RootBlob)}
        \cup {Field(<<107>>, e.vtype, e.buf) \o RootBlob : e \in Encodings}

ParsePeer == Applied("_parse_peer", <<>>, _parse_peer(input))

\* a store with a working pipeline whose t2 holds the drawn value under X and
\* no row for any other peer id
InitPeer ==
    \E b \in PeerBlobs :
       /\ Constructed(TRUE, {"ok"}, {[key |-> PeerX, value |-> b]}, {})
       /\ input = b
       /\ Alone

NextPeer == ParsePeer \/ \E p \in {PeerX, PeerY} : GetPeer(p)

SpecPeer == InitPeer /\ [][NextPeer]_vars

\* forward-info blocks for every flag byte, followed by the author flag
FwdSample == [author_id |-> 9, date |-> 3]

FwdBlocks ==
    {[flag |-> b, text |-> t, next |-> Len(FwdBytes(b, FwdSample.author_id, FwdSample.date, t)),
      buf |-> FwdBytes(b, FwdSample.author_id, FwdSample.date, t) \o <<1>> \o PackS64LE(PeerZ)] :
        b \in 0..255, t \in {<<>>, <<97>>}}

\* what _parse_fwd_info leaves: the exception, None or the dict, the cursor
FwdOutcome(r) ==
    IF Failed(r) THEN [exc |-> r.err, none |-> TRUE, author_id |-> 0, date |-> 0, pos |-> r.pos]
    ELSE IF r.kept["info_flags"].v = 0
    THEN [exc |-> "", none |-> TRUE, author_id |-> 0, date |-> 0, pos |-> r.pos]
    ELSE [exc |-> "", none |-> FALSE, author_id |-> r.kept["fwd_author_id"].v,
          date |-> r.kept["fwd_date"].v, pos |-> r.pos]

ParseFwdInfo ==
    Applied("_parse_fwd_info", <<>>, FwdOutcome(_parse_fwd_info(Reader(input.buf, "<"))))

InitFwd == \E b \in FwdBlocks : Drawn(b)

NextFwd == ParseFwdInfo

SpecFwd == InitFwd /\ [][NextFwd]_vars

\* regular messages for every combination of the six presence bits, of the
\* five forward-info flags, of the Incoming bit and of the author flag
DataFlagSets == 0..(2 * ThreadId - 1)

FwdFlagSets == {2 * k : k \in 0..(Flags - 1)}

Messages ==
    {[data_flags |-> df, flags |-> fl, info_flags |-> inf, h |-> h, author |-> PeerZ,
      text |-> <<97, 98>>,
      buf |-> MessageBytes(df, fl, FwdBytes(inf, FwdSample.author_id, FwdSample.date, <<97>>), h, PeerZ,
                           <<97, 98>>)] :
        df \in DataFlagSets, fl \in {0, Incoming, Incoming + 1, 2}, inf \in FwdFlagSets,
        h \in {0, 1, 2}}

ParseMessage ==
    Applied("_parse_message_value", <<>>, _parse_message_value(input.buf))

InitMessage == \E msg \in Messages : Drawn(msg)

NextMessage == ParseMessage

SpecMessage == InitMessage /\ [][NextMessage]_vars

-----------------------------------------------------------------------------
(* The scanning loops, one iteration at a time *)

(***************************************************************************)
(* pc holds the loop a function is in: fn the function, at "while" or      *)
(* "for" inside the loop (its condition holds) and "return" after it, rd   *)
(* the reader, vtype and count the tag and the iterations left of a        *)
(* count-driven loop.                                                      *)
(***************************************************************************)
WhileLoops == {"decode_all_fields", "get_string", "get_int64", "_parse_peer"}

\* return <value> from inside a loop
Returning(r) == IF Failed(r) THEN r ELSE [r EXCEPT !.err = "return"]

\* the body of the loop of get_string / get_int64 after the record was read
SeekBody(r, vtype) ==
    IF ~Failed(r) /\ r.key = <<107>> /\ r.vtype = vtype THEN Returning(r) ELSE r

\* the body of the loop of _parse_peer after key and vtype_raw were read
PeerBody(r) ==
    IF Failed(r) THEN r
    ELSE IF r.key = <<95>> /\ r.v = Object
    THEN Returning(ReadLength(read_int32(read_int32(r))))
    ELSE _skip_value(ValueTypeOf(r), r.v)

\* one iteration of the while loop of fn
WhileBody(fn, rd) ==
    CASE fn = "decode_all_fields" -> Assign(ReadRecord(rd))
      [] fn = "get_string" -> SeekBody(ReadRecord(rd), String)
      [] fn = "get_int64" -> SeekBody(ReadRecord(rd), Int64)
      [] fn = "_parse_peer" -> PeerBody(read_uint8(KeyOf(read_short_str(rd))))

\* one iteration of a count-driven loop of _read_value or _skip_value
ForBody(fn, vtype, rd) ==
    IF fn = "_read_value"
    THEN (IF vtype = ObjectDictionary THEN ReadObjectBody(ReadObjectBody(rd))
          ELSE Collect(ReadElement(rd, vtype)))
    ELSE IF vtype = ObjectArray THEN SkipTriple(rd)
    ELSE IF vtype = ObjectDictionary THEN SkipTriple(SkipTriple(rd))
    ELSE ReadLength(read_int32(rd))

\* while self.reader.buf.tell() < self.size, and no exception or return
InWhile(rd) == ~Failed(rd) /\ rd.pos < Len(rd.buf)

WhileStep ==
    /\ pc.at = "while"
    /\ pc' = [pc EXCEPT !.rd = WhileBody(pc.fn, pc.rd),
                        !.at = IF InWhile(WhileBody(pc.fn, pc.rd)) THEN "while"
                               ELSE "return"]
    /\ UNCHANGED <<available, conn, plaintext_path, peer_cache, disk, exported, filled,
                   runs, opens, env, t2, t7, call, ret, input, met, hooks, inst>>

ForStep ==
    /\ pc.at = "for"
    /\ pc' = [pc EXCEPT !.rd = ForBody(pc.fn, pc.vtype, pc.rd),
                        !.count = @ - 1,
                        !.at = IF Failed(ForBody(pc.fn, pc.vtype, pc.rd)) \/ pc.count <= 1
                               THEN "return" ELSE "for"]
    /\ UNCHANGED <<available, conn, plaintext_path, peer_cache, disk, exported, filled,
                   runs, opens, env, t2, t7, call, ret, input, met, hooks, inst>>

\* the buffers of the while loops: peer blobs and cut streams
LoopStreams == PeerBlobs \cup {b.buf : b \in CutBuffers}

\* the payloads of the count-driven loops: the arrays and the dictionary,
\* with counts up to the largest int32 over a few bytes of data
ForTags(fn) ==
    IF fn = "_read_value"
    THEN {Int32Array, Int64Array, ObjectArray, ObjectDictionary, StringArray, BytesArray}
    ELSE {ObjectArray, ObjectDictionary, StringArray, BytesArray}

\* the largest int32 count
MaxCount == 2^30 - 1 + 2^30

ForPayloads(fn) ==
    {[vtype |-> e.vtype, buf |-> e.buf] :
        e \in {x \in Encodings \cup Payloads : x.vtype \in ForTags(fn)}}
        \cup {[vtype |-> t, buf |-> PackS32LE(MaxCount) \o rest] :
                 t \in ForTags(fn), rest \in {<<>>, <<1, 0, 0, 0, 97>>, Zeros(9)}}

\* the loop of fn entered on buf (_parse_peer returns before its loop on fewer
\* than 8 bytes), and the for loop entered on the reader c that read its count
WhileEntry(fn, buf) ==
    [fn |-> fn,
     at |-> IF InWhile(Reader(buf, "<")) /\ (fn = "_parse_peer" => Len(buf) >= 8)
            THEN "while" ELSE "return",
     rd |-> Reader(buf, "<"), vtype |-> Nil, count |-> 0]

ForEntry(fn, vtype, c) ==
    [fn |-> fn, at |-> IF ~Failed(c) /\ c.v > 0 THEN "for" ELSE "return",
     rd |-> c, vtype |-> vtype, count |-> IF Failed(c) THEN 0 ELSE c.v]

InitLoops ==
    /\ Constructed(FALSE, {}, {}, {})
    /\ hooks = <<>>
    /\ inst = <<>>
    /\ \/ \E fn \in WhileLoops, buf \in LoopStreams :
             input = buf /\ pc = WhileEntry(fn, buf)
       \/ \E fn \in {"_read_value", "_skip_value"} :
             \E inp \in ForPayloads(fn) :
                input = inp.buf
                    /\ pc = ForEntry(fn, inp.vtype, read_int32(Reader(inp.buf, "<")))

NextLoops == WhileStep \/ ForStep

SpecLoops == InitLoops /\ [][NextLoops]_vars

-----------------------------------------------------------------------------
(* The lazy open and close() *)

\* C1 as stated: over any sequence of queries and close() calls the decrypt
\* pipeline runs, and opens the store, at most once
C1_AtMostOnce == opens <= 1

\* C1 as amended: a query that finds the connection open does not run the
\* pipeline, and no operation runs it more than once; it runs again only from
\* an instance without a connection (after close() or a failed open)
C1_OncePerOpen ==
    [][(conn => runs' = runs /\ opens' = opens) /\ runs' <= runs + 1]_vars

\* stats() returned on an open store that an earlier query had opened
C1_Witness ==
    /\ call.op = "stats" /\ ret.exc = ""
    /\ conn /\ runs = 1 /\ DOMAIN peer_cache # {}

\* C2: right after close() returns, no temporary plaintext file that an open
\* attempt of this instance created is left on disk
C2_NoFileAfterClose == call.op = "close" => exported \cap disk = {}

\* C3: after close() returns the peer cache holds no entry
C3_CacheEmptyAfterClose == call.op = "close" => DOMAIN peer_cache = {}

-----------------------------------------------------------------------------
(* decode_all_fields against get_string / get_int64 *)

\* C4: when get_string(k) or get_int64(k) returns a value and the dict of
\* decode_all_fields holds k, the two values are equal
C4_SeekAgreesWithDecode ==
    (/\ call.op \in {"get_string", "get_int64"}
     /\ ret.val.t # "None"
     /\ call.args[1] \in DOMAIN decode_all_fields(input))
        => PyEq(ret.val, decode_all_fields(input)[call.args[1]])

-----------------------------------------------------------------------------
(* read_messages *)

\* the rows whose key starts with the big-endian encoding of peer p
PeerRows(tbl7, p) == {r \in tbl7 : SubSeq(r.key, 1, 8) = PackS64BE(p)}

\* the rows that have fewer than n rows of the set above them in key order
Greatest(rows, n) ==
    {r \in rows : Cardinality({q \in rows : BytesLess(r.key, q.key)}) < n}

\* the row parses to a message with a non-empty text
HasText(r) ==
    _parse_message_value(r.value).some /\ _parse_message_value(r.value).text # <<>>

\* what identifies a returned record, and the same for a stored row
RecordIds(val) ==
    {[peer_id |-> val[i].peer_id, message_id |-> val[i].message_id,
      text |-> val[i].text] : i \in 1..Len(val)}

RowIds(rows) ==
    {[peer_id |-> _parse_message_key(r.key).peer_id,
      message_id |-> _parse_message_key(r.key).message_id,
      text |-> _parse_message_value(r.value).text] : r \in rows}

ReturnsExactly(val, rows) ==
    RecordIds(val) = RowIds(rows) /\ Len(val) = Cardinality(rows)

\* C5: read_messages(p, limit) returns exactly the records that are among
\* the limit greatest keys with p's prefix and have a non-empty text, all of
\* them of peer p; over the table of 3 records of X and 2 of Y,
\* read_messages(X, 10) returns X's 3 records
C5_ReadReturnsPeerRecords ==
    (call.op = "read_messages" /\ ret.exc = "") =>
        /\ ReturnsExactly(ret.val,
               {r \in Greatest(PeerRows(t7, call.args[1]), call.args[2]) : HasText(r)})
        /\ \A i \in 1..Len(ret.val) : ret.val[i].peer_id = call.args[1]
        /\ (t7 = ExampleTable /\ call.args = <<PeerX, ExampleLimit>>)
               => /\ Len(ret.val) = 3
                  /\ RecordIds(ret.val) = RowIds({RowPool[1], RowPool[2], RowPool[3]})

\* read_messages(X, 10) returned over the table of the example
C5_Witness ==
    /\ call.op = "read_messages" /\ ret.exc = ""
    /\ t7 = ExampleTable /\ call.args = <<PeerX, ExampleLimit>>
    /\ Len(ret.val) = 3

\* C6: the records read_messages returns are in non-increasing timestamp order
C6_NewestFirst ==
    (call.op = "read_messages" /\ ret.exc = "") =>
        \A i \in 1..(Len(ret.val) - 1) :
            ret.val[i].timestamp.instant >= ret.val[i + 1].timestamp.instant

-----------------------------------------------------------------------------
(* The order of message keys *)

\* (peer_id, namespace, timestamp, message_id) of a before that of b
TupleLess(a, b) ==
    \/ a.peer_id < b.peer_id
    \/ a.peer_id = b.peer_id /\ a.namespace < b.namespace
    \/ a.peer_id = b.peer_id /\ a.namespace = b.namespace /\ a.timestamp < b.timestamp
    \/ /\ a.peer_id = b.peer_id /\ a.namespace = b.namespace
       /\ a.timestamp = b.timestamp /\ a.message_id < b.message_id

NonNegative(a) ==
    a.peer_id >= 0 /\ a.namespace >= 0 /\ a.timestamp >= 0 /\ a.message_id >= 0

\* C7 as stated: two 20-byte keys compare as raw bytes the way their decoded
\* signed tuples compare
C7_BytesOrderIsTupleOrder ==
    call.op = "_parse_message_key" =>
        (BytesLess(input[1], input[2]) <=> TupleLess(ret.val[1], ret.val[2]))

\* C7 as amended: the two orders agree for keys none of whose fields decodes
\* to a negative number
C7_OrdersAgreeNonNegative ==
    (call.op = "_parse_message_key" /\ NonNegative(ret.val[1]) /\ NonNegative(ret.val[2]))
        => (BytesLess(input[1], input[2]) <=> TupleLess(ret.val[1], ret.val[2]))

\* two keys of one peer and namespace with timestamps 1 and 256 were decoded
C7_Witness ==
    /\ call.op = "_parse_message_key"
    /\ NonNegative(ret.val[1]) /\ NonNegative(ret.val[2])
    /\ ret.val[1].peer_id = ret.val[2].peer_id
    /\ ret.val[1].namespace = ret.val[2].namespace
    /\ ret.val[1].timestamp = 1 /\ ret.val[2].timestamp = 256
    /\ BytesLess(input[1], input[2])

-----------------------------------------------------------------------------
(* _parse_message_value on cut buffers *)

\* C8: a buffer that ends before the declared sequence is complete, the
\* announced text bytes included, gives None
C8_CutIsUnparsable ==
    (call.op = "_parse_message_value" /\ Len(input.buf) < Len(input.whole))
        => ~ret.val.some

-----------------------------------------------------------------------------
(* search_messages *)

\* a value cut right after the discriminator byte, or with another discriminator
Unparsable(r) == Len(r.value) = 1 \/ (r.value # <<>> /\ r.value[1] # 0)

\* C9: search_messages over a table with unparsable values raises nothing and
\* returns the hits it returns over the table without those records
C9_SkipsUnparsable ==
    call.op = "search_messages" =>
        /\ ret.exc = ""
        /\ ret.val = search_messages({r \in t7 : ~Unparsable(r)}, t2, <<>>,
                                     call.args[1], call.args[2]).val

\* a search returned a hit over a table holding both kinds of unparsable value
C9_Witness ==
    /\ call.op = "search_messages" /\ ret.exc = ""
    /\ RowPool[8] \in t7 /\ RowPool[9] \in t7
    /\ Len(ret.val) >= 1

\* the text is non-empty and contains q, compared without case
Matches(r, q) ==
    /\ HasText(r)
    /\ Contains(Lower(_parse_message_value(r.value).text), Lower(q))

\* the matching rows of a sequence of rows, in its order
RECURSIVE Hits(_, _)
Hits(rows, q) ==
    IF rows = <<>> THEN <<>>
    ELSE (IF Matches(Head(rows), q) THEN <<Head(rows)>> ELSE <<>>) \o Hits(Tail(rows), q)

\* val holds the records of the first min(limit, Len(hits)) rows of hits
FirstOf(val, hits, limit) ==
    /\ Len(val) = Min(limit, Len(hits))
    /\ \A i \in 1..Len(val) :
          /\ val[i].text = _parse_message_value(hits[i].value).text
          /\ val[i].peer_id = _parse_message_key(hits[i].key).peer_id
          /\ val[i].timestamp = Strftime(_parse_message_key(hits[i].key).timestamp)

\* C10: search_messages(q, limit) returns the first min(limit, m) matching
\* records in descending key order, never more than limit and none that
\* does not match
C10_FirstMatches ==
    (call.op = "search_messages" /\ ret.exc = "") =>
        /\ FirstOf(ret.val, Hits(OrderByKeyDesc(t7), call.args[1]), call.args[2])
        /\ Len(ret.val) <= call.args[2]
        /\ \A i \in 1..Len(ret.val) :
              /\ ret.val[i].text # <<>>
              /\ Contains(Lower(ret.val[i].text), Lower(call.args[1]))

\* a search with limit 2 returned 2 of the 3 matching records of the table
C10_Witness ==
    /\ call.op = "search_messages" /\ ret.exc = ""
    /\ call.args[2] = 2 /\ Len(ret.val) = 2
    /\ Len(Hits(OrderByKeyDesc(t7), call.args[1])) = 3

-----------------------------------------------------------------------------
(* close() again, and the failures of the lazy open *)

\* C13 as stated: a close() right after a close(), or on an instance that
\* never opened the store, raises nothing and leaves the connection, the
\* recorded path and the files as they were
C13_CloseIdempotent ==
    [][(call'.op = "close" /\ (call.op = "close" \/ opens = 0))
          => /\ ret'.exc = ""
             /\ conn' = conn
             /\ plaintext_path' = plaintext_path
             /\ disk' = disk]_vars

\* C13: a close() right after a close(), or on an instance that holds no
\* connection and no recorded path, raises nothing and leaves the connection,
\* the recorded path and the files as they were
C13_CloseReleased ==
    [][(call'.op = "close" /\ (call.op = "close" \/ (~conn /\ plaintext_path = NoPath)))
          => /\ ret'.exc = ""
             /\ conn' = conn
             /\ plaintext_path' = plaintext_path
             /\ disk' = disk]_vars

\* close() has returned on an instance that had opened the store and exported
\* a file: the state a second close() starts from
C13_Witness ==
    /\ call.op = "close" /\ ret.exc = ""
    /\ opens >= 1 /\ exported # {}
    /\ ~conn /\ plaintext_path = NoPath

\* C15: with a source file missing every query ends with SystemExit, the
\* pipeline never runs and the instance stays unopened; SystemExit is raised
\* in no other case
C15_NotAvailable ==
    /\ ~available =>
          /\ call.op \notin {"__init__", "close"} => ret.exc = "SystemExit"
          /\ runs = 0 /\ opens = 0 /\ met = "" /\ exported = {}
          /\ ~conn /\ plaintext_path = NoPath
    /\ available => ret.exc # "SystemExit"

\* a query was issued on an instance whose source files are missing
C15_Witness ==
    ~available /\ call.op = "stats" /\ ret.exc = "SystemExit"

\* C16 as stated: the operation whose open meets a hash mismatch raises the
\* integrity error, runs no export, and leaves the instance with no
\* connection and no recorded path
C16_IntegrityAborts ==
    [][met' = "hash_mismatch"
          => /\ ret' = Raised("RuntimeError: Key integrity check failed")
             /\ ~conn'
             /\ plaintext_path' = NoPath
             /\ runs' = runs /\ opens' = opens
             /\ disk' = disk /\ exported' = exported
             /\ peer_cache' = peer_cache]_vars

\* C16: the operation whose open meets a hash mismatch raises the integrity
\* error, runs no export, obtains no connection, leaves the recorded path as
\* it was before the operation and returns nothing
C16_IntegrityKeepsPath ==
    [][met' = "hash_mismatch"
          => /\ ret' = Raised("RuntimeError: Key integrity check failed")
             /\ ~conn'
             /\ plaintext_path' = plaintext_path
             /\ runs' = runs /\ opens' = opens
             /\ disk' = disk /\ exported' = exported
             /\ peer_cache' = peer_cache]_vars

\* the first query of an instance met a hash mismatch
C16_Witness ==
    /\ met = "hash_mismatch" /\ call.op = "read_messages"
    /\ ret.exc = "RuntimeError: Key integrity check failed"
    /\ runs = 0 /\ ~conn /\ plaintext_path = NoPath

\* the error _decrypt_database raises for what the export met
ExportError(o) ==
    IF o \in {"export_failed", "export_failed_file"}
    THEN "RuntimeError: sqlcipher export failed"
    ELSE "RuntimeError: sqlcipher produced empty output"

\* C17: when the export tool exits non-zero, leaves no output file or leaves
\* a zero-length one, the operation raises the decryption error, the instance
\* obtains no connection and records no path, and nothing is returned
C17_ExportFails ==
    [][met' \in {"export_failed", "export_failed_file", "export_missing", "export_empty"}
          => /\ ret' = Raised(ExportError(met'))
             /\ ~conn'
             /\ plaintext_path' = plaintext_path
             /\ opens' = opens
             /\ peer_cache' = peer_cache]_vars

\* a query met a zero-length output file, which stays on disk
C17_Witness ==
    /\ met = "export_empty" /\ call.op = "stats"
    /\ ret.exc = "RuntimeError: sqlcipher produced empty output"
    /\ ~conn /\ exported \cap disk # {}

-----------------------------------------------------------------------------
(* The peer cache and the lookups *)

\* C14: an entry of the peer cache is never removed nor changed by a later
\* operation, and _get_peer of a cached id returns the cached value without
\* reaching the store
C14_CacheAppendOnly ==
    [][/\ \A p \in DOMAIN peer_cache :
             p \in DOMAIN peer_cache' /\ peer_cache'[p] = peer_cache[p]
       /\ (call'.op = "_get_peer" /\ call'.args[1] \in DOMAIN peer_cache)
             => /\ ret' = Returned(peer_cache[call'.args[1]])
                /\ conn' = conn /\ runs' = runs /\ met' = ""]_vars

\* find_chats ran over a table with the unparsable peer U while the cache
\* held U's empty entry next to two more
C14_Witness ==
    /\ call.op = "find_chats" /\ ret.exc = "" /\ conn
    /\ PeerU \in {r.key : r \in t2}
    /\ PeerU \in DOMAIN peer_cache /\ peer_cache[PeerU] = EmptyPeer
    /\ Cardinality(DOMAIN peer_cache) >= 3

\* the text is made of decimal digits only
AllDecimal(s) == s # <<>> /\ \A i \in 1..Len(s) : IsDecimal(s[i])

\* C18: resolve_identifier of an all-digit text above 100000 returns the
\* number and leaves the connection, the pipeline, the files and the cache
\* alone; an all-digit text of at most 100000 goes to the store
C18_DirectPeerId ==
    [][(call'.op = "resolve_identifier" /\ AllDecimal(call'.args[1]))
          => IF IntOf(call'.args[1]) > 100000
             THEN /\ ret' = Returned(PyInt(IntOf(call'.args[1])))
                  /\ conn' = conn /\ plaintext_path' = plaintext_path
                  /\ runs' = runs /\ opens' = opens /\ met' = ""
                  /\ disk' = disk /\ exported' = exported
                  /\ peer_cache' = peer_cache
             ELSE /\ available => conn'
                  /\ ~available => ret'.exc = "SystemExit"]_vars

\* "123456" was resolved on an instance that has not opened the store, over a
\* table that holds peers
C18_Witness ==
    /\ call.op = "resolve_identifier" /\ call.args[1] = <<49, 50, 51, 52, 53, 54>>
    /\ ret.exc = "" /\ ret.val.v = 123456
    /\ available /\ ~conn /\ runs = 0 /\ t2 # {}

\* the first peer in scan order whose phone digits contain the digits
RECURSIVE FirstByPhone(_, _)
FirstByPhone(rows, digits) ==
    IF rows = <<>> THEN PyNone
    ELSE IF /\ _parse_peer(Head(rows).value).some
            /\ Contains(Digits(_parse_peer(Head(rows).value).peer.phone.v), digits)
    THEN PyInt(Head(rows).key)
    ELSE FirstByPhone(Tail(rows), digits)

\* the first match of find_chats, or None
FirstByName(matches) ==
    IF matches = <<>> THEN PyNone ELSE PyInt(matches[1].peer_id)

\* C19: a text that is not a direct peer id is resolved by one strategy: with
\* a digit in it, to the first peer whose phone digits contain its digits or
\* to None; without, to the first find_chats match or to None; never by an
\* exception
C19_OneStrategy ==
    (/\ call.op = "resolve_identifier" /\ available
     /\ ~(AllDecimal(Strip(call.args[1])) /\ IntOf(Strip(call.args[1])) > 100000))
        => /\ ret.exc = ""
           /\ PyEq(ret.val,
                   IF Digits(call.args[1]) # <<>>
                   THEN FirstByPhone(ScanPeers(t2), Digits(call.args[1]))
                   ELSE FirstByName(find_chats(t2, <<>>, Strip(call.args[1])).val))

\* the parsable rows of a scan that the predicate of the claim selects
RECURSIVE ChatsWhere(_, _, _)
Selected(peer, query, emptyDigitsMatch) ==
    \/ Contains(Lower(Format(_peer_display_name(peer)) \o <<32>> \o peer.username.v
                      \o <<32>> \o peer.phone.v), Lower(query))
    \/ /\ emptyDigitsMatch \/ Digits(query) # <<>>
       /\ Contains(Digits(peer.phone.v), Digits(query))

ChatsWhere(rows, query, emptyDigitsMatch) ==
    IF rows = <<>> THEN <<>>
    ELSE (IF /\ _parse_peer(Head(rows).value).some
             /\ Selected(_parse_peer(Head(rows).value).peer, query, emptyDigitsMatch)
          THEN <<Head(rows).key>> ELSE <<>>)
         \o ChatsWhere(Tail(rows), query, emptyDigitsMatch)

PeerIds(val) == [i \in 1..Len(val) |-> val[i].peer_id]

\* C20 as stated: find_chats returns, in scan order, the parsable peers whose
\* lowercase "name username phone" contains the lowercase query or whose
\* phone digits contain the digits of the query
C20_FindChatsMatches ==
    (call.op = "find_chats" /\ ret.exc = "")
        => PeerIds(ret.val) = ChatsWhere(ScanPeers(t2), call.args[1], TRUE)

\* C20 as amended: the digits of the query count only when there are any; the
\* query "5551234567" finds the peer with the phone "+1 (555) 123-4567"
C20_FindChatsMatchesDigits ==
    (call.op = "find_chats" /\ ret.exc = "")
        => /\ PeerIds(ret.val) = ChatsWhere(ScanPeers(t2), call.args[1], FALSE)
           /\ (/\ call.args[1] = <<53, 53, 53, 49, 50, 51, 52, 53, 54, 55>>
               /\ PeerW \in {r.key : r \in t2})
                 => \E i \in 1..Len(ret.val) : ret.val[i].peer_id = PeerW

\* find_chats("5551234567") returned the peer with the phone "+1 (555) 123-4567"
C20_Witness ==
    /\ call.op = "find_chats" /\ ret.exc = ""
    /\ call.args[1] = <<53, 53, 53, 49, 50, 51, 52, 53, 54, 55>>
    /\ PeerY \in {r.key : r \in t2}
    /\ PeerIds(ret.val) = <<PeerW>>

-----------------------------------------------------------------------------
(* Temporary paths of instances side by side, and close() at process end *)

Live(r) == r.at \in {"named", "ran", "exported", "open"}

\* the name an instance works with: the one mktemp gave it while
\* _decrypt_database runs, self._plaintext_path afterwards
Held(r) == IF r.at \in {"named", "ran"} THEN r.tmp ELSE r.path

\* C11: two instances never hold the same temporary path, and the file of an
\* open instance is not deleted by the close() of another
C11_DistinctPaths ==
    /\ \A i, j \in DOMAIN inst :
          (i # j /\ Live(inst[i]) /\ Live(inst[j])) => Held(inst[i]) # Held(inst[j])
    /\ \A i \in DOMAIN inst : inst[i].at = "open" => inst[i].path \in disk

\* C12: when the process has ended, the instance it created holds no open
\* connection: close() ran after the open on every exit path
C12_ClosedAtExit == pc.at = "ended" => ~conn

-----------------------------------------------------------------------------
(* recent_chats and the scans over short keys *)

\* the peers of the keys of a message table, and a peer's timestamps
KeyPeers(tbl7) == {_parse_message_key(r.key).peer_id : r \in tbl7}

PeerStamps(tbl7, p) ==
    {_parse_message_key(r.key).timestamp :
        r \in {q \in tbl7 : _parse_message_key(q.key).peer_id = p}}

LastStamp(tbl7, p) ==
    CHOOSE t \in PeerStamps(tbl7, p) : \A u \in PeerStamps(tbl7, p) : u <= t

WholeKeys(tbl7) == {r \in tbl7 : Len(r.key) >= 20}

\* the entries val are distinct peers of the table with their last stamps,
\* newest first, and no peer left out is newer than one listed
RecentOf21(val, tbl7, limit) ==
    /\ Len(val) <= limit
    /\ \A i \in 1..Len(val) :
          /\ val[i].peer_id \in KeyPeers(tbl7)
          /\ val[i].last_message = Strftime(LastStamp(tbl7, val[i].peer_id))
          /\ \A j \in (i + 1)..Len(val) :
                /\ val[j].peer_id # val[i].peer_id
                /\ LastStamp(tbl7, val[j].peer_id) <= LastStamp(tbl7, val[i].peer_id)
          /\ \A p \in KeyPeers(tbl7) \ {val[k].peer_id : k \in 1..Len(val)} :
                LastStamp(tbl7, p) <= LastStamp(tbl7, val[i].peer_id)

\* C21: recent_chats(limit), limit >= 0, returns at most limit entries, one per
\* peer of the message table, by non-increasing last timestamp; each entry
\* carries the greatest timestamp of its peer and no omitted peer is newer
C21_RecentChats ==
    (call.op = "recent_chats" /\ ret.exc = "" /\ call.args[1] >= 0)
        => RecentOf21(ret.val, t7, call.args[1])

\* recent_chats(1) over three records of two peers, the older peer left out
C21_Witness ==
    /\ call.op = "recent_chats" /\ ret.exc = "" /\ call.args[1] = 1
    /\ Len(ret.val) = 1
    /\ Cardinality(t7) = 3 /\ Cardinality(KeyPeers(t7)) = 2
    /\ Cardinality(PeerStamps(t7, ret.val[1].peer_id)) = 2
    /\ \E r \in t7 : _parse_message_key(r.key).timestamp
                        < LastStamp(t7, ret.val[1].peer_id)
                     /\ _parse_message_key(r.key).peer_id = ret.val[1].peer_id

\* what a scan returns over the table without the rows of short keys
OverWholeKeys(op, args, tbl7, tbl2) ==
    CASE op = "recent_chats" -> recent_chats(WholeKeys(tbl7), tbl2, <<>>, args[1]).val
      [] op = "read_messages" ->
            read_messages(WholeKeys(tbl7), tbl2, <<>>, args[1], args[2]).val
      [] op = "search_messages" ->
            search_messages(WholeKeys(tbl7), tbl2, <<>>, args[1], args[2]).val
      [] op = "get_all_messages" ->
            get_all_messages(WholeKeys(tbl7), tbl2, <<>>, args[1]).val

\* C29: a row whose key is shorter than 20 bytes is skipped: the four scans
\* raise nothing and return what they return over the table without the row
C29_ShortKeySkipped ==
    (/\ call.op \in {"recent_chats", "read_messages", "search_messages",
                     "get_all_messages"}
     /\ WholeKeys(t7) # t7)
        => /\ ret.exc = ""
           /\ ret.val = OverWholeKeys(call.op, call.args, t7, t2)

-----------------------------------------------------------------------------
(* _parse_message_key on encoded keys *)

\* the dict _parse_message_key returns for the four values f
KeyDict(f) == [err |-> "", peer_id |-> f.peer_id, namespace |-> f.namespace,
               timestamp |-> f.timestamp, message_id |-> f.message_id]

\* C25: _parse_message_key of the 20-byte big-endian encoding of four values
\* returns exactly those values
C25_KeyRoundTrip ==
    call.op = "_parse_message_key"
        => \A f \in KeyTuples, i \in 1..2 :
              EncodeKey(f) = input[i] => ret.val[i] = KeyDict(f)

\* the example key and a key with negative fields were parsed
C25_Witness ==
    /\ call.op = "_parse_message_key"
    /\ input[1] = EncodeKey(ExampleKey) /\ ret.val[1] = KeyDict(ExampleKey)
    /\ ret.val[2].peer_id = -1 /\ ret.val[2].timestamp = -1

-----------------------------------------------------------------------------
(* _read_value and _skip_value on the fourteen tags *)

\* C24: for each of the 14 tags, _read_value of the encoding of a value
\* returns that value
C24_ReadRoundTrip ==
    (call.op = "_read_value" /\ input.encoded)
        => ret.val.exc = "" /\ PyEq(ret.val.v, input.value)

\* C26: for each tag and every payload, _skip_value advances the cursor by the
\* number of bytes _read_value consumes after the tag byte
C26_SkipMirrorsRead ==
    call.op = "_skip_value"
        => ret.val.pos
              = ReadOutcome(_read_value(Reader(<<input.vtype>> \o input.buf, "<"))).pos

-----------------------------------------------------------------------------
(* decode_all_fields on cut streams *)

\* the records of fs that lie whole, key and payload, in the first n bytes
WholeRecords(fs, n) ==
    SubSeq(fs, 1, Cardinality({i \in 1..Len(fs) : Len(StreamBytes(SubSeq(fs, 1, i))) <= n}))

\* C22: on a buffer cut inside a record, or holding an unknown tag, the map
\* decode_all_fields returns holds exactly the records complete before that
\* point and nothing of the cut or malformed record
C22_OnlyWholeRecords ==
    call.op = "decode_all_fields" /\ DOMAIN input = {"fields", "buf"}
        => ret.val = DictOf(WholeRecords(input.fields, Len(input.buf)))

-----------------------------------------------------------------------------
(* _parse_peer and _get_peer on any t2 value *)

\* the stream buf has a record with key "_" and tag Object
HasRoot(buf) ==
    \E i \in 1..Len(ScanRecords(Reader(buf, "<")).fields) :
        /\ ScanRecords(Reader(buf, "<")).fields[i].key = <<95>>
        /\ ScanRecords(Reader(buf, "<")).fields[i].vtype = Object

\* C23: resolving a peer never fails: parsing a peer blob raises nothing, and
\* a blob without a record "_" of tag Object, or a peer id without a row,
\* resolves to the peer whose five fields are the empty string
C23_ResolveNeverFails ==
    /\ call.op = "_parse_peer" => ret.val.exc = ""
    /\ call.op = "_get_peer" =>
          /\ ret.exc = ""
          /\ (call.args[1] # PeerX \/ ~HasRoot(input)) => ret.val = EmptyPeer

\* a blob whose first record has an unknown tag was resolved to the empty
\* peer, with the ValueError of the tag caught
C23_Witness ==
    /\ call.op = "_get_peer" /\ call.args[1] = PeerX
    /\ input = BadRecord \o RootBlob
    /\ ret.val = EmptyPeer /\ ret.exc = ""
    /\ conn /\ PeerX \in DOMAIN peer_cache

-----------------------------------------------------------------------------
(* _parse_message_value and _parse_fwd_info on every flag combination *)

\* C27: a well-formed regular message parses, for every combination of the
\* presence bits, the forward-info flags and the author flag, to the encoded
\* text, the encoded author_id (none unless the author flag is 1) and
\* incoming equal to bit value 4 of the flags word, the optional fields
\* consumed with their sizes
C27_MessageFields ==
    call.op = "_parse_message_value"
        => /\ ret.val.some
           /\ ret.val.text = input.text
           /\ PyEq(ret.val.author_id,
                   IF input.h = 1 THEN PyInt(input.author) ELSE PyNone)
           /\ ret.val.incoming = HasBit(input.flags, Incoming)
           /\ ret.val.pos = Len(input.buf)

\* a message with all six optional fields, all five forward-info fields and
\* an author flag of 2 was parsed
C27_Witness ==
    /\ call.op = "_parse_message_value"
    /\ input.data_flags = 2 * ThreadId - 1 /\ input.info_flags = 2 * Flags - 2
    /\ input.h = 2 /\ input.flags = Incoming
    /\ ret.val.some /\ ret.val.incoming /\ ret.val.author_id.t = "None"

\* C28: _parse_fwd_info consumes 1 byte and returns None for the flag byte 0;
\* for any other flag byte it consumes author_id, date and exactly the fields
\* whose bit is set, returns them, and leaves the cursor on the author flag
C28_FwdInfo ==
    call.op = "_parse_fwd_info"
        => /\ ret.val.exc = ""
           /\ ret.val.pos = input.next
           /\ IF input.flag = 0 THEN ret.val.none /\ ret.val.pos = 1
              ELSE /\ ~ret.val.none
                   /\ ret.val.author_id = FwdSample.author_id /\ ret.val.date = FwdSample.date

-----------------------------------------------------------------------------
(* Termination of the scans *)

\* C30: every iteration of a scanning loop, and of a count-driven inner loop,
\* advances the cursor by at least one byte or leaves the loop, the cursor
\* never beyond the end of the buffer: a count larger than the data ends the
\* loop at the end of the buffer
C30_ScansTerminate ==
    [][pc.at \in {"while", "for"}
          => /\ pc'.rd.pos <= Len(pc'.rd.buf)
             /\ pc'.at = "return" \/ pc'.rd.pos > pc.rd.pos]_vars

\* a count-driven loop of _read_value with the largest count ended with
\* EOFError at the end of the buffer after reading an element
C30_Witness ==
    /\ pc.fn = "_read_value" /\ pc.at = "return"
    /\ pc.rd.err = "EOFError" /\ pc.rd.pos = Len(pc.rd.buf)
    /\ pc.rd.items # <<>>
    /\ pc.count > MaxCount - 3

====
